---- MODULE Spec2Model ----
(***************************************************************************)
(* WebMind: the sequential retrieval-and-sufficiency loop of agent.py      *)
(* (run_search_session) and its response parser                            *)
(* (parse_llm_sufficiency_response).                                       *)
(*                                                                         *)
(* A Python str is modelled as a sequence of characters, each character a  *)
(* one-element token.  Optional[str] is a record [none, s].                *)
(***************************************************************************)
EXTENDS Integers, Sequences, FiniteSets, TLC

VARIABLES
    query,          \* run_search_session argument: the user's query
    urls,           \* run_search_session argument: the candidate list
    max_attempts,   \* run_search_session argument: the attempt budget
    urls_to_try,    \* local: urls[:max_attempts]
    tried_urls,     \* local: the attempt log
    attempt_count,  \* local: enumerate(..., 1) counter, 0 before the loop
    url,            \* local: the loop variable
    scraped_text,   \* local: what scrape_single_url returned
    llm_response,   \* local: what query_chat_model returned
    final_answer,   \* local: first component of the parser's result
    is_sufficient,  \* local: second component of the parser's result
    result,         \* the returned tuple (text, tried_urls)
    pc,             \* position in the code
    exc,            \* the exception being handled or propagating
    status_log,     \* messages passed to update_status, in order
    fetch_log,      \* URLs passed to scrape_single_url, in order
    judge_log,      \* prompts passed to query_chat_model, in order
    attempts,       \* per visited URL: what the collaborators did
    sink_raised,    \* history: some update_status call has raised
    session_state,  \* st.session_state: search_running, final_result,
                    \* tried_urls_summary (status_messages is status_log)
    search_urls,    \* search handler local: what perform_web_search returned
    frame,          \* locals of the collaborator function being executed
                    \* (query_chat_model, perform_web_search, scrape_single_url)
    world           \* what the collaborators act on outside the process: the
                    \* model backend, the search provider and its cache, files

vars == <<query, urls, max_attempts, urls_to_try, tried_urls, attempt_count,
          url, scraped_text, llm_response, final_answer, is_sufficient,
          result, pc, exc, status_log, fetch_log, judge_log, attempts,
          sink_raised, session_state, search_urls, frame, world>>

----------------------------------------------------------------------------
(* Bounds of the model.                                                    *)

MaxUrls == 3
MaxBudget == 3
MaxNegBudget == 1
MaxPad == 2

Min(a, b) == IF a < b THEN a ELSE b
Max(a, b) == IF a > b THEN a ELSE b

----------------------------------------------------------------------------
(* Python strings.                                                         *)

PyNone == [none |-> TRUE, s |-> <<>>]
Str(s) == [none |-> FALSE, s |-> s]

UpperChars == <<"A","B","C","D","E","F","G","H","I","J","K","L","M",
                "N","O","P","Q","R","S","T","U","V","W","X","Y","Z">>
LowerChars == <<"a","b","c","d","e","f","g","h","i","j","k","l","m",
                "n","o","p","q","r","s","t","u","v","w","x","y","z">>

\* "I-dot" stands for the single character U+0130, whose lower-case form is
\* the two characters "i" and U+0307 ("dot-above").
LowerChar(c) ==
    IF \E i \in 1..Len(UpperChars) : UpperChars[i] = c
    THEN <<LowerChars[CHOOSE i \in 1..Len(UpperChars) : UpperChars[i] = c]>>
    ELSE IF c = "I-dot" THEN <<"i", "dot-above">>
    ELSE <<c>>

RECURSIVE Lower(_)
Lower(s) == IF s = <<>> THEN <<>> ELSE LowerChar(Head(s)) \o Lower(Tail(s))

IsSpace(c) == c \in {" ", "\t", "\n"}

\* str.lstrip and str.rstrip, by the positions of the characters that are
\* not whitespace.
LStrip(s) ==
    LET kept == {i \in 1..Len(s) : ~IsSpace(s[i])}
    IN  IF kept = {} THEN <<>>
        ELSE SubSeq(s, CHOOSE i \in kept : \A j \in 1..(i - 1) : IsSpace(s[j]),
                    Len(s))

RStrip(s) ==
    LET kept == {i \in 1..Len(s) : ~IsSpace(s[i])}
    IN  IF kept = {} THEN <<>>
        ELSE SubSeq(s, 1,
                    CHOOSE i \in kept : \A j \in (i + 1)..Len(s) : IsSpace(s[j]))

Strip(s) == RStrip(LStrip(s))

\* str.find: the least 0-based index at which m occurs in s, or -1.
Find(s, m) ==
    LET hits == {i \in 0..(Len(s) - Len(m)) : SubSeq(s, i + 1, i + Len(m)) = m}
    IN  IF hits = {} THEN -1
        ELSE CHOOSE i \in hits : \A j \in hits : i <= j

\* s[i:] for i >= 0.
SliceFrom(s, i) == SubSeq(s, i + 1, Len(s))

\* The whole of s, whatever k.
SliceToNoLimit(s, k) == s

\* s[:k-1] for k >= 1.
SliceToOneLess(s, k) == SubSeq(s, 1, Min(Max(k - 1, 0), Len(s)))

\* s[:k] for any integer k.
SliceTo(s, k) ==
    IF k >= 0 THEN SubSeq(s, 1, Min(k, Len(s)))
    ELSE SubSeq(s, 1, Max(Len(s) + k, 0))

InsufficientPhrase ==
    <<"i","n","s","u","f","f","i","c","i","e","n","t"," ",
      "c","o","n","t","e","x","t">>

final_answer_marker ==
    <<"f","i","n","a","l"," ","a","n","s","w","e","r",":">>

\* A parser whose verdict depends on the attempt it is called in.
parse_varying_by_attempt(response) ==
    LET response_lower == Strip(Lower(response))
        marker_pos == Find(response_lower, final_answer_marker)
        final_answer_text ==
            Strip(SliceFrom(response, marker_pos + Len(final_answer_marker)))
    IN  IF response_lower = InsufficientPhrase \/ attempt_count = 1
        THEN [final_answer |-> PyNone, is_sufficient |-> FALSE]
        ELSE IF marker_pos # -1
        THEN IF final_answer_text # <<>>
             THEN [final_answer |-> Str(final_answer_text), is_sufficient |-> TRUE]
             ELSE [final_answer |-> PyNone, is_sufficient |-> FALSE]
        ELSE [final_answer |-> PyNone, is_sufficient |-> FALSE]

\* A parser that salvages the text of a reply it cannot classify.
parse_salvaging_free_text(response) ==
    LET response_lower == Strip(Lower(response))
        marker_pos == Find(response_lower, final_answer_marker)
        final_answer_text ==
            Strip(SliceFrom(response, marker_pos + Len(final_answer_marker)))
    IN  IF response_lower = InsufficientPhrase
        THEN [final_answer |-> PyNone, is_sufficient |-> FALSE]
        ELSE IF marker_pos # -1
        THEN IF final_answer_text # <<>>
             THEN [final_answer |-> Str(final_answer_text), is_sufficient |-> TRUE]
             ELSE [final_answer |-> PyNone, is_sufficient |-> FALSE]
        ELSE IF Strip(response) # <<>>
        THEN [final_answer |-> Str(Strip(response)), is_sufficient |-> TRUE]
        ELSE [final_answer |-> PyNone, is_sufficient |-> FALSE]

\* The parser without its test that the text after the marker is not empty.
parse_without_emptiness_test(response) ==
    LET response_lower == Strip(Lower(response))
        marker_pos == Find(response_lower, final_answer_marker)
        final_answer_text ==
            Strip(SliceFrom(response, marker_pos + Len(final_answer_marker)))
    IN  IF response_lower = InsufficientPhrase
        THEN [final_answer |-> PyNone, is_sufficient |-> FALSE]
        ELSE IF marker_pos # -1
        THEN [final_answer |-> Str(final_answer_text), is_sufficient |-> TRUE]
        ELSE [final_answer |-> PyNone, is_sufficient |-> FALSE]

parse_llm_sufficiency_response(response) ==
    LET response_lower == Strip(Lower(response))
        marker_pos == Find(response_lower, final_answer_marker)
        final_answer_text ==
            Strip(SliceFrom(response, marker_pos + Len(final_answer_marker)))
    IN  IF response_lower = InsufficientPhrase
        THEN [final_answer |-> PyNone, is_sufficient |-> FALSE]
        ELSE IF marker_pos # -1
        THEN IF final_answer_text # <<>>
             THEN [final_answer |-> Str(final_answer_text), is_sufficient |-> TRUE]
             ELSE [final_answer |-> PyNone, is_sufficient |-> FALSE]
        ELSE [final_answer |-> PyNone, is_sufficient |-> FALSE]

----------------------------------------------------------------------------
(* What the collaborators can do, and the inputs of a session.             *)

\* What the search provider returned: an ordered list that may name a page
\* twice.  The candidate lists are its prefixes.
UrlCycle == <<"urlA", "urlB", "urlA", "urlC">>
SearchResults == [i \in 1..MaxUrls |-> UrlCycle[((i - 1) % Len(UrlCycle)) + 1]]
Queries == {"capital of X"}

CandidateLists == {SubSeq(SearchResults, 1, n) : n \in 0..MaxUrls}
Budgets == (0 - MaxNegBudget)..MaxBudget

\* scrape_single_url returns None, "", or text; a renderer may hand back
\* whitespace only.
FetchResults == {PyNone, Str(<<>>), Str(<<" ">>), Str(<<"p","g">>)}

ReplyInsufficient ==
    <<"I","n","s","u","f","f","i","c","i","e","n","t"," ",
      "c","o","n","t","e","x","t">>
ReplyFinalAnswer ==
    <<"F","i","n","a","l"," ","A","n","s","w","e","r",":"," ","Y">>
ReplyEmptyAnswer ==
    <<"F","I","N","A","L"," ","A","N","S","W","E","R",":"," "," ">>
ReplyFreeText == <<"m","a","y","b","e">>

ReplyEmpty == <<>>
ReplyTwoMarkers ==
    <<"f","i","n","a","l"," ","a","n","s","w","e","r",":"," ","Y"," ",
      "F","i","n","a","l"," ","A","n","s","w","e","r",":"," ","Z">>

JudgeReplies ==
    {ReplyInsufficient, ReplyFinalAnswer, ReplyEmptyAnswer, ReplyFreeText,
     ReplyEmpty, ReplyTwoMarkers}

CHAT_MODEL == "gemma3:4b"
MAX_LLM_CONTEXT_LENGTH == [m \in {"gemma3:4b"} |-> 100000]
DefaultContextLength == 15000

\* getattr(obj, name, default) reads an attribute of the dict object; the
\* keys of a dict are not attributes, and no dict attribute has the name of
\* a model ("gemma3:4b" is not an identifier), so the default comes back.
PyGetattr(obj, name, default) == default

----------------------------------------------------------------------------
(* Messages and results.                                                   *)

Msg(kind, n, u) == [kind |-> kind, n |-> n, url |-> u]

NoResult == [kind |-> "none", text |-> <<>>, tried_urls |-> <<>>]

\* f"{final_answer}\n\n---\n*Source: {url}*"
final_answer_with_ref(answer, u) ==
    answer \o <<"\n\n---\n*Source: ">> \o <<u>> \o <<"*">>

\* The message counting one URL too many.
failure_message_off_by_one(tried) ==
    <<"Could not find a sufficient answer after trying ">>
        \o <<ToString(Len(tried) + 1)>> \o <<" URL(s).">>

\* f"Could not find a sufficient answer after trying {len(tried_urls)} URL(s)."
failure_message(tried) ==
    <<"Could not find a sufficient answer after trying ">>
        \o <<ToString(Len(tried))>> \o <<" URL(s).">>

Truthy(opt) == ~opt.none /\ opt.s # <<>>

FetchKind(r) ==
    IF r.none THEN "none"
    ELSE IF r.s = <<>> THEN "empty"
    ELSE IF Strip(r.s) = <<>> THEN "blank"
    ELSE "text"

NewAttempt(u) ==
    [url |-> u, fetch |-> "pending", judge |-> "not_called", verdict |-> "none", reply |-> PyNone]

SetLast(log, field, value) ==
    [log EXCEPT ![Len(log)] = [@ EXCEPT ![field] = value]]

----------------------------------------------------------------------------
(* update_status: status_callback(message), then status_placeholder.info.  *)
(* Either call may raise; the exception leaves update_status.              *)

update_status(message, next_pc, raise_pc) ==
    /\ status_log' = Append(status_log, message)
    /\ \/ /\ pc' = next_pc
          /\ exc' = "none"
          /\ sink_raised' = sink_raised
       \/ /\ sink_raised' = TRUE
          /\ pc' = raise_pc
          /\ exc' = "sink"

----------------------------------------------------------------------------
(* The state the page keeps between runs, and the handler's local.         *)

\* streamlit_app.py lines 33-40.
InitialSessionState ==
    [search_running |-> FALSE, final_result |-> <<>>, tried_urls_summary |-> <<>>]

\* A local that has not been assigned, and one that holds v.
Unbound == [bound |-> FALSE, v |-> <<>>]

\* No collaborator function is being executed, and a session, which is given
\* its collaborators' outcomes, does not look at what they act on.
NoFrame == [fn |-> "none"]
NoWorld == [none |-> TRUE]
Bound(v) == [bound |-> TRUE, v |-> v]

----------------------------------------------------------------------------
(* run_search_session.                                                     *)

Init ==
    /\ query \in Queries
    /\ urls \in CandidateLists
    /\ max_attempts \in Budgets
    /\ urls_to_try = <<>>
    /\ tried_urls = <<>>
    /\ attempt_count = 0
    /\ url = ""
    /\ scraped_text = PyNone
    /\ llm_response = PyNone
    /\ final_answer = PyNone
    /\ is_sufficient = FALSE
    /\ result = NoResult
    /\ pc = "start"
    /\ exc = "none"
    /\ status_log = <<>>
    /\ fetch_log = <<>>
    /\ judge_log = <<>>
    /\ attempts = <<>>
    /\ sink_raised = FALSE
    /\ session_state = InitialSessionState
    /\ search_urls = Unbound
    /\ frame = NoFrame
    /\ world = NoWorld

\* A start that cuts the list it was given down to the budget, in place.
StartSessionTruncatingInPlace ==
    /\ pc = "start"
    /\ tried_urls' = <<>>
    /\ urls' = SliceTo(urls, max_attempts)
    /\ urls_to_try' = urls'
    /\ pc' = "loop"
    /\ UNCHANGED <<frame, world, query, max_attempts, attempt_count, url, scraped_text,
                   llm_response, final_answer, is_sufficient, result, exc,
                   status_log, fetch_log, judge_log, attempts, sink_raised,
                   session_state, search_urls>>

\* Lines 92-97: tried_urls = [], urls_to_try = urls[:max_attempts].
StartSession ==
    /\ pc = "start"
    /\ tried_urls' = <<>>
    /\ urls_to_try' = SliceTo(urls, max_attempts)
    /\ pc' = "loop"
    /\ UNCHANGED <<frame, world, query, urls, max_attempts, attempt_count, url, scraped_text,
                   llm_response, final_answer, is_sufficient, result, exc,
                   status_log, fetch_log, judge_log, attempts, sink_raised,
                   session_state, search_urls>>

\* The loop taking the next element of `list` without recording it.
NextAttemptFromWithoutRecord(list) ==
    /\ pc = "loop"
    /\ attempt_count < Len(list)
    /\ attempt_count' = attempt_count + 1
    /\ url' = list[attempt_count + 1]
    /\ tried_urls' = tried_urls
    /\ attempts' = Append(attempts, NewAttempt(url'))
    /\ update_status(Msg("attempt", attempt_count', url'), "scraping_notice", "raised")
    /\ UNCHANGED <<frame, world, query, urls, max_attempts, urls_to_try, scraped_text,
                   llm_response, final_answer, is_sufficient, result,
                   fetch_log, judge_log,
                   session_state, search_urls>>

\* Lines 99-101 with the loop drawing from `list`: next element of
\* enumerate(list, 1), append it to tried_urls, announce the attempt.
NextAttemptFrom(list) ==
    /\ pc = "loop"
    /\ attempt_count < Len(list)
    /\ attempt_count' = attempt_count + 1
    /\ url' = list[attempt_count + 1]
    /\ tried_urls' = Append(tried_urls, url')
    /\ attempts' = Append(attempts, NewAttempt(url'))
    /\ update_status(Msg("attempt", attempt_count', url'), "scraping_notice", "raised")
    /\ UNCHANGED <<frame, world, query, urls, max_attempts, urls_to_try, scraped_text,
                   llm_response, final_answer, is_sufficient, result,
                   fetch_log, judge_log,
                   session_state, search_urls>>

Reverse(list) == [i \in 1..Len(list) |-> list[Len(list) + 1 - i]]

\* The loop walking the candidates from the last to the first.
NextAttemptReversed == NextAttemptFrom(Reverse(urls_to_try))

\* Lines 99-101: for attempt_count, url in enumerate(urls_to_try, 1).
NextAttempt == NextAttemptFrom(urls_to_try)

\* Line 104.
ScrapingNotice ==
    /\ pc = "scraping_notice"
    /\ update_status(Msg("scraping", attempt_count, url), "scrape", "raised")
    /\ UNCHANGED <<frame, world, query, urls, max_attempts, urls_to_try, tried_urls,
                   attempt_count, url, scraped_text, llm_response, final_answer,
                   is_sufficient, result, fetch_log, judge_log, attempts,
                   session_state, search_urls>>

\* A scrape that judges every text that is not empty, blank or not.
ScrapeFromWithoutStripTest(results) ==
    /\ pc = "scrape"
    /\ fetch_log' = Append(fetch_log, url)
    /\ \/ /\ exc' = "fetch"
          /\ pc' = "scrape_except"
          /\ scraped_text' = scraped_text
          /\ attempts' = SetLast(attempts, "fetch", "raised")
       \/ \E r \in results :
            /\ scraped_text' = r
            /\ attempts' = SetLast(attempts, "fetch", FetchKind(r))
            /\ exc' = exc
            /\ pc' = IF ~Truthy(r)
                     THEN "no_content_notice"
                     ELSE "scrape_ok_notice"
    /\ UNCHANGED <<frame, world, query, urls, max_attempts, urls_to_try, tried_urls,
                   attempt_count, url, llm_response, final_answer, is_sufficient,
                   result, status_log, judge_log, sink_raised,
                   session_state, search_urls>>

\* A scrape that keeps the text it already has when a page returns text.
ScrapeFromKeepingEarlierText(results) ==
    /\ pc = "scrape"
    /\ fetch_log' = Append(fetch_log, url)
    /\ \/ /\ exc' = "fetch"
          /\ pc' = "scrape_except"
          /\ scraped_text' = scraped_text
          /\ attempts' = SetLast(attempts, "fetch", "raised")
       \/ \E r \in results :
            /\ scraped_text' = IF Truthy(r) /\ Truthy(scraped_text)
                               THEN scraped_text ELSE r
            /\ attempts' = SetLast(attempts, "fetch", FetchKind(r))
            /\ exc' = exc
            /\ pc' = IF (~Truthy(r)) \/ Strip(r.s) = <<>>
                     THEN "no_content_notice"
                     ELSE "scrape_ok_notice"
    /\ UNCHANGED <<frame, world, query, urls, max_attempts, urls_to_try, tried_urls,
                   attempt_count, url, llm_response, final_answer, is_sufficient,
                   result, status_log, judge_log, sink_raised,
                   session_state, search_urls>>

\* Lines 105-107: scrape_single_url(url) raises or returns one of results;
\* the test of line 107 picks the branch.
ScrapeFrom(results) ==
    /\ pc = "scrape"
    /\ fetch_log' = Append(fetch_log, url)
    /\ \/ /\ exc' = "fetch"
          /\ pc' = "scrape_except"
          /\ scraped_text' = scraped_text
          /\ attempts' = SetLast(attempts, "fetch", "raised")
       \/ \E r \in results :
            /\ scraped_text' = r
            /\ attempts' = SetLast(attempts, "fetch", FetchKind(r))
            /\ exc' = exc
            /\ pc' = IF (~Truthy(r)) \/ Strip(r.s) = <<>>
                     THEN "no_content_notice"
                     ELSE "scrape_ok_notice"
    /\ UNCHANGED <<frame, world, query, urls, max_attempts, urls_to_try, tried_urls,
                   attempt_count, url, llm_response, final_answer, is_sufficient,
                   result, status_log, judge_log, sink_raised,
                   session_state, search_urls>>

Scrape == ScrapeFrom(FetchResults)

\* Lines 108-109, inside the try of line 105: notice, then continue.
NoContentNotice ==
    /\ pc = "no_content_notice"
    /\ update_status(Msg("no_content", attempt_count, url), "loop", "scrape_except")
    /\ UNCHANGED <<frame, world, query, urls, max_attempts, urls_to_try, tried_urls,
                   attempt_count, url, scraped_text, llm_response, final_answer,
                   is_sufficient, result, fetch_log, judge_log, attempts,
                   session_state, search_urls>>

\* Line 111, inside the try of line 105.
ScrapeOkNotice ==
    /\ pc = "scrape_ok_notice"
    /\ update_status(Msg("scrape_ok", attempt_count, url), "analyzing_notice", "scrape_except")
    /\ UNCHANGED <<frame, world, query, urls, max_attempts, urls_to_try, tried_urls,
                   attempt_count, url, scraped_text, llm_response, final_answer,
                   is_sufficient, result, fetch_log, judge_log, attempts,
                   session_state, search_urls>>

\* An except clause that lets the exception it caught leave the function.
Reraise(at_pc) ==
    /\ pc = at_pc
    /\ pc' = "raised"
    /\ UNCHANGED <<frame, world, query, urls, max_attempts, urls_to_try, tried_urls,
                   attempt_count, url, scraped_text, llm_response, final_answer,
                   is_sufficient, result, exc, status_log, fetch_log, judge_log,
                   attempts, sink_raised,
                   session_state, search_urls>>

ScrapeExceptReraise == Reraise("scrape_except")

\* Lines 112-115: except Exception as scrape_err: notice, then continue.
ScrapeExcept ==
    /\ pc = "scrape_except"
    /\ update_status(Msg("scrape_error", attempt_count, url), "loop", "raised")
    /\ UNCHANGED <<frame, world, query, urls, max_attempts, urls_to_try, tried_urls,
                   attempt_count, url, scraped_text, llm_response, final_answer,
                   is_sufficient, result, fetch_log, judge_log, attempts,
                   session_state, search_urls>>

\* The notice of line 118 with the fetch of the next URL started alongside.
AnalyzingNoticePrefetching ==
    /\ pc = "analyzing_notice"
    /\ update_status(Msg("analyzing", attempt_count, url), "analyze", "raised")
    /\ fetch_log' = IF attempt_count < Len(urls_to_try)
                    THEN Append(fetch_log, urls_to_try[attempt_count + 1])
                    ELSE fetch_log
    /\ UNCHANGED <<frame, world, query, urls, max_attempts, urls_to_try, tried_urls,
                   attempt_count, url, scraped_text, llm_response, final_answer,
                   is_sufficient, result, judge_log, attempts,
                   session_state, search_urls>>

\* Line 118.
AnalyzingNotice ==
    /\ pc = "analyzing_notice"
    /\ update_status(Msg("analyzing", attempt_count, url), "analyze", "raised")
    /\ UNCHANGED <<frame, world, query, urls, max_attempts, urls_to_try, tried_urls,
                   attempt_count, url, scraped_text, llm_response, final_answer,
                   is_sufficient, result, fetch_log, judge_log, attempts,
                   session_state, search_urls>>

\* Lines 119-132: build the prompt, query_chat_model(prompt) raises or
\* returns, parse the reply, test of line 132.
Analyze ==
    /\ pc = "analyze"
    /\ LET max_context_length ==
               PyGetattr(MAX_LLM_CONTEXT_LENGTH, CHAT_MODEL, DefaultContextLength)
           prompt == [query |-> query, url |-> url,
                      scraped_text |-> SliceTo(scraped_text.s, max_context_length)]
       IN  judge_log' = Append(judge_log, prompt)
    /\ \/ /\ exc' = "judge"
          /\ pc' = "llm_except"
          /\ attempts' = SetLast(attempts, "judge", "raised")
          /\ UNCHANGED <<llm_response, final_answer, is_sufficient>>
       \/ \E r \in JudgeReplies :
            LET parsed == parse_llm_sufficiency_response(r)
            IN  /\ llm_response' = Str(r)
                /\ final_answer' = parsed.final_answer
                /\ is_sufficient' = parsed.is_sufficient
                /\ attempts' = SetLast(SetLast(SetLast(attempts, "judge", "replied"), "verdict",
                                       IF parsed.is_sufficient THEN "sufficient"
                                                               ELSE "insufficient"), "reply", Str(r))
                /\ exc' = exc
                /\ pc' = IF parsed.is_sufficient /\ Truthy(parsed.final_answer)
                         THEN "sufficient_notice"
                         ELSE "insufficient_notice"
    /\ UNCHANGED <<frame, world, query, urls, max_attempts, urls_to_try, tried_urls,
                   attempt_count, url, scraped_text, result, status_log,
                   fetch_log, sink_raised,
                   session_state, search_urls>>

\* Lines 133-136, inside the try of line 119: notice, then return.
SufficientNotice ==
    /\ pc = "sufficient_notice"
    /\ update_status(Msg("sufficient", attempt_count, url), "returned", "llm_except")
    /\ result' = IF pc' = "returned"
                 THEN [kind |-> "Answered",
                       text |-> final_answer_with_ref(final_answer.s, url),
                       tried_urls |-> tried_urls]
                 ELSE result
    /\ UNCHANGED <<frame, world, query, urls, max_attempts, urls_to_try, tried_urls,
                   attempt_count, url, scraped_text, llm_response, final_answer,
                   is_sufficient, fetch_log, judge_log, attempts,
                   session_state, search_urls>>

\* Line 138, inside the try of line 119; falls off the loop body.
InsufficientNotice ==
    /\ pc = "insufficient_notice"
    /\ update_status(Msg("insufficient", attempt_count, url), "loop", "llm_except")
    /\ UNCHANGED <<frame, world, query, urls, max_attempts, urls_to_try, tried_urls,
                   attempt_count, url, scraped_text, llm_response, final_answer,
                   is_sufficient, result, fetch_log, judge_log, attempts,
                   session_state, search_urls>>

LlmExceptReraise == Reraise("llm_except")

\* Lines 139-141: except Exception as llm_err: notice; falls off the body.
LlmExcept ==
    /\ pc = "llm_except"
    /\ update_status(Msg("llm_error", attempt_count, url), "loop", "raised")
    /\ UNCHANGED <<frame, world, query, urls, max_attempts, urls_to_try, tried_urls,
                   attempt_count, url, scraped_text, llm_response, final_answer,
                   is_sufficient, result, fetch_log, judge_log, attempts,
                   session_state, search_urls>>

\* Lines 143-147: the loop is over; notice, then return the failure message.
Exhausted ==
    /\ pc = "loop"
    /\ attempt_count = Len(urls_to_try)
    /\ update_status(Msg("exhausted", Len(tried_urls), ""), "returned", "raised")
    /\ result' = IF pc' = "returned"
                 THEN [kind |-> "Exhausted",
                       text |-> failure_message(tried_urls),
                       tried_urls |-> tried_urls]
                 ELSE result
    /\ UNCHANGED <<frame, world, query, urls, max_attempts, urls_to_try, tried_urls,
                   attempt_count, url, scraped_text, llm_response, final_answer,
                   is_sufficient, fetch_log, judge_log, attempts,
                   session_state, search_urls>>

Next ==
    \/ StartSession
    \/ NextAttempt
    \/ ScrapingNotice
    \/ Scrape
    \/ NoContentNotice
    \/ ScrapeOkNotice
    \/ ScrapeExcept
    \/ AnalyzingNotice
    \/ Analyze
    \/ SufficientNotice
    \/ InsufficientNotice
    \/ LlmExcept
    \/ Exhausted

Spec == Init /\ [][Next]_vars

\* The session is one sequential call: it takes its next step whenever it
\* has one.
FairSpec == Spec /\ WF_vars(Next)

----------------------------------------------------------------------------
(* Properties of a session.                                                *)

\* min(k, n): the attempt budget against the number of candidates.
AllowedCount == Min(max_attempts, Len(urls))

AttemptIndexes == 1..Len(attempts)

FetchOrJudgeRaised(i) ==
    attempts[i].fetch = "raised" \/ attempts[i].judge = "raised"

\* The attempts whose fetch returned non-blank text and whose judge reply
\* parsed as Sufficient.
SufficientIndexes ==
    {i \in AttemptIndexes :
        attempts[i].fetch = "text" /\ attempts[i].verdict = "sufficient"}

LeastSufficient ==
    CHOOSE i \in SufficientIndexes : \A j \in SufficientIndexes : i <= j

\* C1: with a positive attempt budget k and n candidates, the number of URLs
\* visited and the number of fetch calls made never exceed min(n, k).
C1_BudgetCap ==
    max_attempts > 0 =>
        /\ Len(tried_urls) <= AllowedCount
        /\ Len(fetch_log) <= AllowedCount

\* A session with more candidates than budget that used the whole budget.
C1_Witness ==
    /\ max_attempts > 0
    /\ Len(urls) > max_attempts
    /\ pc = "returned"
    /\ Len(tried_urls) = max_attempts
    /\ Len(fetch_log) = max_attempts

\* C2: tried_urls is always a prefix, in the original order, of the
\* candidate list: tried_urls[j] = urls[j] for every position j it has.
C2_OrderPreserved ==
    /\ Len(tried_urls) <= Len(urls)
    /\ \A j \in 1..Len(tried_urls) : tried_urls[j] = urls[j]

\* A finished session that visited two different URLs.
C2_Witness ==
    /\ pc = "returned"
    /\ Len(tried_urls) >= 2
    /\ tried_urls[1] # tried_urls[2]

\* C3: once the judge's reply for the URL at position i has parsed as
\* Sufficient, no later URL is fetched or judged, and the session ends at
\* once with Answered.
C3_EarlyExit ==
    \A i \in AttemptIndexes :
        attempts[i].verdict = "sufficient" =>
            /\ Len(attempts) = i
            /\ Len(fetch_log) <= i
            /\ pc = "returned" => result.kind = "Answered"

\* The same, for sessions in which every update_status call returned.
EarlyExitWhenSinkReturns == (~sink_raised) => C3_EarlyExit

\* C4: with a positive budget the session result is Answered exactly when
\* some visited candidate had a non-blank fetch and a reply that parsed as
\* Sufficient; the answer is attributed to the least such position i and
\* tried_urls is urls[0..i].
C4_FirstSufficientWins ==
    (pc = "returned" /\ max_attempts > 0) =>
        /\ result.kind = "Answered" <=> SufficientIndexes # {}
        /\ SufficientIndexes # {} =>
             /\ LeastSufficient <= AllowedCount
             /\ result.tried_urls = SubSeq(urls, 1, LeastSufficient)
             /\ result.text[Len(result.text) - 1] = urls[LeastSufficient]

\* The same, for sessions in which every update_status call returned.
FirstSufficientWinsWhenSinkReturns == (~sink_raised) => C4_FirstSufficientWins

\* C5: a session that went through all allowed URLs without a Sufficient
\* verdict returns the exhaustion message, whose count is len(tried_urls),
\* which is min(k, n), together with tried_urls.
C5_Exhaustion ==
    (pc = "returned" /\ max_attempts > 0) =>
        /\ (\A i \in AttemptIndexes : attempts[i].verdict # "sufficient")
               => result.kind = "Exhausted"
        /\ result.kind = "Exhausted" =>
             /\ result.text =
                    <<"Could not find a sufficient answer after trying ",
                      ToString(Len(result.tried_urls)), " URL(s).">>
             /\ result.tried_urls = tried_urls
             /\ Len(tried_urls) = AllowedCount
             /\ tried_urls = SubSeq(urls, 1, AllowedCount)

\* Two candidates, budget 2, both fetched and both judged insufficient: the
\* message says 2 and tried_urls is [urlA, urlB].
C5_Witness ==
    /\ pc = "returned"
    /\ urls = <<"urlA", "urlB">>
    /\ max_attempts = 2
    /\ \A i \in AttemptIndexes :
         attempts[i].fetch = "text" /\ attempts[i].verdict = "insufficient"
    /\ llm_response = Str(ReplyInsufficient)
    /\ result.kind = "Exhausted"
    /\ result.text[2] = "2"
    /\ result.tried_urls = <<"urlA", "urlB">>

\* C6 as stated: a completed session visited exactly min(k, n) URLs, unless
\* it ended on a Sufficient verdict, and then strictly fewer than min(k, n).
C6_StrictlyFewerOnEarlyExit ==
    (pc = "returned" /\ max_attempts > 0) =>
        IF result.kind = "Answered"
        THEN Len(result.tried_urls) < AllowedCount
        ELSE Len(result.tried_urls) = AllowedCount

\* C6 as amended: a completed session visited exactly min(k, n) URLs, unless
\* it ended on a Sufficient verdict, and then it visited the URLs up to the
\* one judged Sufficient: at least one and at most min(k, n).
C6_BudgetCapExact ==
    (pc = "returned" /\ max_attempts > 0) =>
        IF result.kind = "Answered"
        THEN /\ Len(result.tried_urls) >= 1
             /\ Len(result.tried_urls) <= AllowedCount
             /\ attempts[Len(result.tried_urls)].verdict = "sufficient"
        ELSE Len(result.tried_urls) = AllowedCount

\* A session answered from the last allowed URL, after an earlier one.
C6_Witness ==
    /\ pc = "returned"
    /\ max_attempts > 0
    /\ result.kind = "Answered"
    /\ Len(result.tried_urls) = AllowedCount
    /\ AllowedCount >= 2

\* C7: a fetch exception or a judge exception at position i is caught: it
\* never leaves run_search_session, it is never the session's result, and
\* when a further URL is allowed that URL is attempted next.
C7_FailureIsolation ==
    /\ pc = "raised" => exc = "sink"
    /\ pc = "returned" =>
         /\ result.kind \in {"Answered", "Exhausted"}
         /\ \A i \in AttemptIndexes :
              (FetchOrJudgeRaised(i) /\ max_attempts > 0 /\ i < AllowedCount) =>
                  /\ Len(attempts) >= i + 1
                  /\ attempts[i + 1].url = urls[i + 1]
                  /\ attempts[i + 1].fetch # "pending"

\* Fetch raises for the first URL, the judge raises for the second, the
\* third is judged sufficient and answers.
C7_Witness ==
    /\ pc = "returned"
    /\ Len(attempts) = 3
    /\ attempts[1].fetch = "raised"
    /\ attempts[2].judge = "raised"
    /\ attempts[3].verdict = "sufficient"
    /\ result.kind = "Answered"
    /\ result.tried_urls = urls

\* C8: whatever the fetcher and the judge do, the session ends: it returns
\* one result, Answered or Exhausted, together with tried_urls; the one
\* other way out is an exception of the status sink leaving the function.
C8_ResultAlwaysProduced ==
    /\ <>(pc = "returned" \/ (pc = "raised" /\ exc = "sink"))
    /\ [](pc = "returned" =>
            /\ result.kind \in {"Answered", "Exhausted"}
            /\ result.tried_urls = tried_urls)
    /\ [](pc # "returned" => result = NoResult)
    /\ [][pc = "returned" => result' = result]_vars

\* A session that met a raising fetch and a raising judge, with a sink that
\* always returned, and returned its result.
C8_Witness ==
    /\ pc = "returned"
    /\ ~sink_raised
    /\ \E i \in AttemptIndexes : attempts[i].fetch = "raised"
    /\ \E i \in AttemptIndexes : attempts[i].judge = "raised"
    /\ result.kind = "Exhausted"

\* C9: a failing call of the status sink does not abort the session and
\* changes neither the fetch and judge calls nor the result: text that was
\* fetched is judged, nothing is attempted after a Sufficient verdict, and
\* the result is Answered exactly when a verdict was Sufficient.
C9_SinkNotControlFlow ==
    sink_raised =>
        /\ pc # "raised"
        /\ \A i \in AttemptIndexes :
             /\ (attempts[i].fetch = "text" /\ i < Len(attempts))
                    => attempts[i].judge # "not_called"
             /\ attempts[i].verdict = "sufficient" => i = Len(attempts)
        /\ pc = "returned" =>
             (result.kind = "Answered" <=> SufficientIndexes # {})

----------------------------------------------------------------------------
(* The parser on its own: parse_llm_sufficiency_response applied to one    *)
(* reply, as line 130 applies it.                                          *)

RECURSIVE SeqsUpTo(_, _)
SeqsUpTo(S, n) ==
    IF n = 0 THEN {<<>>}
    ELSE LET shorter == SeqsUpTo(S, n - 1)
         IN  shorter \cup {Append(q, x) : q \in {r \in shorter : Len(r) = n - 1}, x \in S}

PadChars == {" ", "x", "I-dot"}
Pads == SeqsUpTo(PadChars, MaxPad)

MarkerTitle == <<"F","i","n","a","l"," ","A","n","s","w","e","r",":">>
MarkerUpper == <<"F","I","N","A","L"," ","A","N","S","W","E","R",":">>

ReplyHeads ==
    {MarkerTitle, MarkerUpper, final_answer_marker,
     ReplyInsufficient, InsufficientPhrase, ReplyFreeText, <<>>}

ReplyTails ==
    {<<>>, <<" ">>, <<" ","P","a","r","i","s">>, <<"P","a","r","i","s"," ">>,
     <<" ","Y"," ","f","i","n","a","l"," ","a","n","s","w","e","r",":"," ","Z">>}

ParseInputs == {p \o h \o t : p \in Pads, h \in ReplyHeads, t \in ReplyTails}

ParseInit ==
    /\ query \in Queries
    /\ urls = <<>>
    /\ max_attempts = 1
    /\ urls_to_try = <<>>
    /\ tried_urls = <<>>
    /\ attempt_count = 0
    /\ url = ""
    /\ scraped_text = PyNone
    /\ llm_response \in {Str(x) : x \in ParseInputs}
    /\ final_answer = PyNone
    /\ is_sufficient = FALSE
    /\ result = NoResult
    /\ pc = "parse_call"
    /\ exc = "none"
    /\ status_log = <<>>
    /\ fetch_log = <<>>
    /\ judge_log = <<>>
    /\ attempts = <<>>
    /\ sink_raised = FALSE
    /\ session_state = InitialSessionState
    /\ search_urls = Unbound
    /\ frame = NoFrame
    /\ world = NoWorld

\* final_answer, is_sufficient = parse_llm_sufficiency_response(llm_response)
ParseResponse ==
    /\ pc = "parse_call"
    /\ LET parsed == parse_llm_sufficiency_response(llm_response.s)
       IN  /\ final_answer' = parsed.final_answer
           /\ is_sufficient' = parsed.is_sufficient
    /\ pc' = "parse_done"
    /\ UNCHANGED <<frame, world, query, urls, max_attempts, urls_to_try, tried_urls,
                   attempt_count, url, scraped_text, llm_response, result, exc,
                   status_log, fetch_log, judge_log, attempts, sink_raised,
                   session_state, search_urls>>

ParseNext == ParseResponse

ParseSpec == ParseInit /\ [][ParseNext]_vars

----------------------------------------------------------------------------
(* What the specification says of a reply, read off the reply itself.      *)

\* The marker stands at 0-based position i of S, compared case-insensitively.
MarkerAt(S, i) ==
    /\ i + Len(final_answer_marker) <= Len(S)
    /\ \A j \in 1..Len(final_answer_marker) :
         LowerChar(S[i + j]) = <<final_answer_marker[j]>>

MarkerPositions(S) == {i \in 0..Len(S) : MarkerAt(S, i)}

FirstMarker(S) ==
    CHOOSE i \in MarkerPositions(S) : \A j \in MarkerPositions(S) : i <= j

\* The text of S that follows the first occurrence of the marker, trimmed.
TextAfterFirstMarker(S) ==
    Strip(SubSeq(S, FirstMarker(S) + Len(final_answer_marker) + 1, Len(S)))

\* C10: every reply that contains the marker "final answer:" in any casing,
\* with any leading or trailing whitespace, and has non-blank text after the
\* first occurrence of the marker, parses as Sufficient with exactly that
\* text, trimmed and in its original casing.
C10_MarkerExtractionExact ==
    (/\ pc = "parse_done"
     /\ MarkerPositions(llm_response.s) # {}
     /\ TextAfterFirstMarker(llm_response.s) # <<>>)
    => (/\ is_sufficient
        /\ final_answer = Str(TextAfterFirstMarker(llm_response.s)))

\* C11: every reply in which the marker "final answer:" is present, in any
\* casing and with any surrounding whitespace, and in which nothing but
\* whitespace follows it, parses as Insufficient.
C11_DegenerateResponse ==
    (/\ pc = "parse_done"
     /\ MarkerPositions(llm_response.s) # {}
     /\ TextAfterFirstMarker(llm_response.s) = <<>>)
    => (/\ ~is_sufficient
        /\ final_answer = PyNone)


\* C12: every reply whose trimmed, lower-cased form is exactly
\* "insufficient context", and every reply that contains neither that phrase
\* nor the marker "final answer:" (the empty reply and free text included),
\* parses as Insufficient with no answer text.
C12_LenientParsing ==
    (/\ pc = "parse_done"
     /\ \/ Strip(Lower(llm_response.s)) = InsufficientPhrase
        \/ /\ MarkerPositions(llm_response.s) = {}
           /\ Find(llm_response.s, InsufficientPhrase) = -1)
    => (/\ ~is_sufficient
        /\ final_answer = PyNone)

\* Free text with neither the phrase nor the marker was parsed.
C12_Witness ==
    /\ pc = "parse_done"
    /\ MarkerPositions(llm_response.s) = {}
    /\ Find(llm_response.s, InsufficientPhrase) = -1
    /\ Strip(llm_response.s) # <<>>
    /\ ~is_sufficient
    /\ final_answer = PyNone


\* The attempts of the session whose judge call returned a reply.
RepliedAttempts == {i \in DOMAIN attempts : attempts[i].judge = "replied"}

ParserVerdictWellFormed ==
    /\ \A i \in RepliedAttempts :
         attempts[i].verdict \in {"sufficient", "insufficient"}
    /\ \A i, j \in RepliedAttempts :
         attempts[i].reply = attempts[j].reply
            => attempts[i].verdict = attempts[j].verdict
    /\ pc \in {"sufficient_notice", "insufficient_notice"}
         => \/ /\ is_sufficient
               /\ ~final_answer.none
               /\ Strip(final_answer.s) # <<>>
            \/ /\ ~is_sufficient
               /\ final_answer = PyNone

ParserChangesNoSessionState ==
    pc = "analyze"
       => UNCHANGED <<frame, world, query, urls, max_attempts, urls_to_try, tried_urls,
                      attempt_count, url, scraped_text, result, status_log,
                      session_state>>

----------------------------------------------------------------------------
(* Sessions over pages as long as the context caps.                        *)

\* A page text of b blanks followed by n characters "p".
PageOf(b, n) == [i \in 1..(b + n) |-> IF i <= b THEN " " ELSE "p"]

\* Texts scrape_single_url can return, of lengths at and beyond the cap in use.
LongPages ==
    {PageOf(0, DefaultContextLength),
     PageOf(0, DefaultContextLength + 1),
     PageOf(DefaultContextLength, 2)}

LongFetchResults == FetchResults \cup {Str(p) : p \in LongPages}

LongPageInit ==
    /\ Init
    /\ Len(urls) <= 2
    /\ max_attempts = 2

ScrapeLongPage == ScrapeFrom(LongFetchResults)

LongPageNext ==
    \/ StartSession
    \/ NextAttempt
    \/ ScrapingNotice
    \/ ScrapeLongPage
    \/ NoContentNotice
    \/ ScrapeOkNotice
    \/ ScrapeExcept
    \/ AnalyzingNotice
    \/ Analyze
    \/ SufficientNotice
    \/ InsufficientNotice
    \/ LlmExcept
    \/ Exhausted

LongPageSpec == LongPageInit /\ [][LongPageNext]_vars


----------------------------------------------------------------------------
(* Properties of the fetch and judge steps.                                *)

FailedFetchKinds == {"raised", "none", "empty", "blank"}

JudgedAttempts == {i \in DOMAIN attempts : attempts[i].judge # "not_called"}

\* A failed fetch, of any of the four kinds, is never judged, and a session
\* that returns went on to the next allowed URL after it.
FailedFetchSkipsAndAdvances ==
    /\ \A i \in DOMAIN attempts :
         attempts[i].fetch \in FailedFetchKinds => attempts[i].judge = "not_called"
    /\ pc = "returned"
         => \A i \in DOMAIN attempts :
              (attempts[i].fetch \in FailedFetchKinds /\ i < Len(urls_to_try))
                 => /\ Len(attempts) > i
                    /\ attempts[i + 1].url = urls_to_try[i + 1]

\* C14: a URL whose fetch raised, or returned null, the empty string or
\* whitespace only, is never judged and the loop goes on to the next URL, the
\* same for all four kinds; and the page text of every judge call is
\* non-blank.
C14_NoJudgingWithoutContent ==
    /\ FailedFetchSkipsAndAdvances
    /\ \A k \in DOMAIN judge_log : Strip(judge_log[k].scraped_text) # <<>>

\* C14, amended: a URL whose fetch raised, or returned null, the empty string
\* or whitespace only, is never judged and the loop goes on to the next URL,
\* the same for all four kinds; the judge is called only for a URL whose
\* fetched text is non-blank (the prefix of it that the prompt carries may
\* be blank).
C14_NoJudgingWithoutFetchedContent ==
    /\ FailedFetchSkipsAndAdvances
    /\ \A i \in JudgedAttempts : attempts[i].fetch = "text"
    /\ Len(judge_log) = Cardinality(JudgedAttempts)

\* A returned session skipped a blank first page and had the second judged,
\* the prompt carrying a blank prefix of a non-blank page.
C14_Witness ==
    /\ pc = "returned"
    /\ Len(attempts) = 2
    /\ attempts[1].fetch = "blank"
    /\ attempts[1].judge = "not_called"
    /\ attempts[2].fetch = "text"
    /\ attempts[2].judge = "replied"
    /\ Len(judge_log) = 1
    /\ Strip(judge_log[1].scraped_text) = <<>>


\* The cap the configuration holds for the active model, the default when the
\* table has none.
ConfiguredCap ==
    IF CHAT_MODEL \in DOMAIN MAX_LLM_CONTEXT_LENGTH
    THEN MAX_LLM_CONTEXT_LENGTH[CHAT_MODEL]
    ELSE DefaultContextLength

\* C16: the page text of a judge prompt is the prefix of the fetched text of
\* length min(len(text), cap), cap being the table's value for the active
\* model when the table has one and the default 15000 only otherwise.
C16_ContextTruncation ==
    pc \in {"sufficient_notice", "insufficient_notice", "llm_except"}
       => judge_log[Len(judge_log)].scraped_text =
             SubSeq(scraped_text.s, 1, Min(Len(scraped_text.s), ConfiguredCap))


\* C15: a URL is in TriedURLs before it is fetched: when a fetch is about to
\* be made its URL is the last element of TriedURLs, every fetch made so far
\* is for the URL recorded at the same position, the recorded URLs never
\* exceed the allowed ones, and a returned session lists every URL fetched,
\* those whose fetch failed included.
C15_RecordBeforeFetch ==
    /\ pc = "scrape"
         => /\ tried_urls # <<>>
            /\ tried_urls[Len(tried_urls)] = url
            /\ Len(fetch_log) = Len(tried_urls) - 1
    /\ Len(fetch_log) <= Len(tried_urls)
    /\ \A k \in DOMAIN fetch_log : fetch_log[k] = tried_urls[k]
    /\ Len(tried_urls) <= Len(urls_to_try)
    /\ pc = "returned"
         => /\ result.tried_urls = fetch_log
            /\ \A i \in DOMAIN attempts :
                 attempts[i].fetch \in FailedFetchKinds
                    => /\ i <= Len(result.tried_urls)
                       /\ result.tried_urls[i] = attempts[i].url

\* A returned session whose first fetch raised lists that URL first and used
\* up its two allowed attempts.
C15_Witness ==
    /\ pc = "returned"
    /\ Len(urls_to_try) = 2
    /\ Len(attempts) = 2
    /\ attempts[1].fetch = "raised"
    /\ result.kind = "Exhausted"
    /\ result.tried_urls = <<attempts[1].url, attempts[2].url>>
    /\ fetch_log = result.tried_urls


\* The text line 135 builds for the answer the parser gave to the reply of
\* attempt i, attributed to the URL of attempt i.
AttributedAnswer(i) ==
    parse_llm_sufficiency_response(attempts[i].reply.s).final_answer.s
        \o <<"\n\n---\n*Source: ">> \o <<attempts[i].url>> \o <<"*">>

\* A session that returns an answer returns the answer of its last attempt,
\* attributed to the URL of that attempt, the last of TriedURLs.
AttributionWhenAnswered ==
    (pc = "returned" /\ result.kind = "Answered")
       => /\ attempts[Len(attempts)].verdict = "sufficient"
          /\ result.text = AttributedAnswer(Len(attempts))
          /\ result.tried_urls[Len(result.tried_urls)] = attempts[Len(attempts)].url

\* C17: when the judge's reply for a URL is parsed as Sufficient, the text the
\* session returns is the parser's answer followed by
\* "\n\n---\n*Source: <url>*" with the URL of that attempt, and that URL is
\* the last element of the returned TriedURLs.
C17_SourceAttribution ==
    pc = "returned"
       => \A i \in DOMAIN attempts :
            attempts[i].verdict = "sufficient"
               => /\ result.text = AttributedAnswer(i)
                  /\ result.tried_urls[Len(result.tried_urls)] = attempts[i].url


----------------------------------------------------------------------------
(* The search handler of the page (streamlit_app.py lines 68-113), calling *)
(* run_search_session.  A display call (status_placeholder.info, st.error) *)
(* may raise.                                                              *)

\* config.py reads both from the environment (lines 22 and 25); the budget
\* of the page is bounded here, the number of search results by MaxUrls.
MAX_SEARCH_ATTEMPTS == 2
DDG_MAX_RESULTS == MaxUrls

NoPagesMessage == <<"Could not find any relevant web pages for the query.">>
ErrorMessage == <<"An error occurred. Please try again.">>

AppInit ==
    /\ query \in Queries
    /\ urls = <<>>
    /\ max_attempts = MAX_SEARCH_ATTEMPTS
    /\ urls_to_try = <<>>
    /\ tried_urls = <<>>
    /\ attempt_count = 0
    /\ url = ""
    /\ scraped_text = PyNone
    /\ llm_response = PyNone
    /\ final_answer = PyNone
    /\ is_sufficient = FALSE
    /\ result = NoResult
    /\ pc = "idle"
    /\ exc = "none"
    /\ status_log = <<>>
    /\ fetch_log = <<>>
    /\ judge_log = <<>>
    /\ attempts = <<>>
    /\ sink_raised = FALSE
    /\ session_state = InitialSessionState
    /\ search_urls = Unbound
    /\ frame = NoFrame
    /\ world = NoWorld

\* A handler whose reset leaves the list of attempted URLs as it is.
HandlerStartKeepingSummary ==
    /\ pc = "idle"
    /\ query # ""
    /\ session_state' = [search_running |-> TRUE, final_result |-> <<>>,
                         tried_urls_summary |->
                            session_state.tried_urls_summary]
    /\ status_log' = <<Msg("starting", 0, "")>>
    /\ \/ /\ pc' = "searching_notice"
          /\ exc' = exc
       \/ /\ pc' = "script_raised"
          /\ exc' = "display"
    /\ UNCHANGED <<frame, world, query, urls, max_attempts, urls_to_try, tried_urls,
                   attempt_count, url, scraped_text, llm_response, final_answer,
                   is_sufficient, result, fetch_log, judge_log, attempts,
                   sink_raised, search_urls>>

\* Lines 68-77: the button was pressed with a query; reset, first message.
\* Line 77 is outside the try.
HandlerStart ==
    /\ pc = "idle"
    /\ query # ""
    /\ session_state' = [search_running |-> TRUE, final_result |-> <<>>,
                         tried_urls_summary |-> <<>>]
    /\ status_log' = <<Msg("starting", 0, "")>>
    /\ \/ /\ pc' = "searching_notice"
          /\ exc' = exc
       \/ /\ pc' = "script_raised"
          /\ exc' = "display"
    /\ UNCHANGED <<frame, world, query, urls, max_attempts, urls_to_try, tried_urls,
                   attempt_count, url, scraped_text, llm_response, final_answer,
                   is_sufficient, result, fetch_log, judge_log, attempts,
                   sink_raised, search_urls>>

\* Lines 81-82, inside the try of line 79.
SearchingNotice ==
    /\ pc = "searching_notice"
    /\ status_log' = Append(status_log, Msg("searching", DDG_MAX_RESULTS, ""))
    /\ \/ /\ pc' = "search"
          /\ exc' = exc
       \/ /\ pc' = "handler_except"
          /\ exc' = "display"
    /\ UNCHANGED <<frame, world, query, urls, max_attempts, urls_to_try, tried_urls,
                   attempt_count, url, scraped_text, llm_response, final_answer,
                   is_sufficient, result, fetch_log, judge_log, attempts,
                   sink_raised, session_state, search_urls>>

\* A handler that starts the session whatever the search returned.
SearchWithoutEmptyTest ==
    /\ pc = "search"
    /\ \E found \in CandidateLists :
         /\ search_urls' = Bound(found)
         /\ status_log' = Append(status_log, Msg("found", Len(found), ""))
         /\ session_state' = session_state
         /\ \/ /\ pc' = "start"
               /\ urls' = found
               /\ max_attempts' = MAX_SEARCH_ATTEMPTS
               /\ exc' = exc
            \/ /\ pc' = "handler_except"
               /\ exc' = "display"
               /\ UNCHANGED <<urls, max_attempts>>
    /\ UNCHANGED <<frame, world, query, urls_to_try, tried_urls, attempt_count, url,
                   scraped_text, llm_response, final_answer, is_sufficient,
                   result, fetch_log, judge_log, attempts, sink_raised>>

\* Lines 84-100: perform_web_search returns a list; with no result the
\* handler sets the final message, otherwise it announces the count and
\* calls run_search_session(query, search_urls, MAX_SEARCH_ATTEMPTS, ...).
Search ==
    /\ pc = "search"
    /\ \E found \in CandidateLists :
         /\ search_urls' = Bound(found)
         /\ IF found = <<>>
            THEN /\ status_log' = Append(status_log, Msg("no_results", 0, ""))
                 /\ session_state' =
                       [session_state EXCEPT !.final_result = NoPagesMessage]
                 /\ pc' = "finally"
                 /\ UNCHANGED <<urls, max_attempts, exc>>
            ELSE /\ status_log' = Append(status_log, Msg("found", Len(found), ""))
                 /\ session_state' = session_state
                 /\ \/ /\ pc' = "start"
                       /\ urls' = found
                       /\ max_attempts' = MAX_SEARCH_ATTEMPTS
                       /\ exc' = exc
                    \/ /\ pc' = "handler_except"
                       /\ exc' = "display"
                       /\ UNCHANGED <<urls, max_attempts>>
    /\ UNCHANGED <<frame, world, query, urls_to_try, tried_urls, attempt_count, url,
                   scraped_text, llm_response, final_answer, is_sufficient,
                   result, fetch_log, judge_log, attempts, sink_raised>>

\* A handler that keeps the answer and drops the list of URLs.
StoreResultsWithoutUrls ==
    /\ pc = "returned"
    /\ session_state' = [session_state EXCEPT !.final_result = result.text]
    /\ status_log' = Append(status_log, Msg("finished", 0, ""))
    /\ pc' = "finally"
    /\ UNCHANGED <<frame, world, query, urls, max_attempts, urls_to_try, tried_urls,
                   attempt_count, url, scraped_text, llm_response, final_answer,
                   is_sufficient, result, exc, fetch_log, judge_log, attempts,
                   sink_raised, search_urls>>

\* Lines 94-105: the session returned (final_answer, tried_urls).
StoreResults ==
    /\ pc = "returned"
    /\ session_state' = [session_state EXCEPT
                            !.final_result = result.text,
                            !.tried_urls_summary = result.tried_urls]
    /\ status_log' = Append(status_log, Msg("finished", 0, ""))
    /\ pc' = "finally"
    /\ UNCHANGED <<frame, world, query, urls, max_attempts, urls_to_try, tried_urls,
                   attempt_count, url, scraped_text, llm_response, final_answer,
                   is_sufficient, result, exc, fetch_log, judge_log, attempts,
                   sink_raised, search_urls>>

\* Lines 107-110: an exception left the try body (a display call of the
\* handler or run_search_session raised); st.error may raise in its turn.
HandlerExcept ==
    /\ pc \in {"handler_except", "raised"}
    /\ pc' = "finally"
    /\ \/ /\ exc' = "display"
          /\ UNCHANGED <<status_log, session_state>>
       \/ /\ exc' = "none"
          /\ status_log' = Append(status_log, Msg("search_error", 0, ""))
          /\ session_state' =
                [session_state EXCEPT !.final_result = ErrorMessage]
    /\ UNCHANGED <<frame, world, query, urls, max_attempts, urls_to_try, tried_urls,
                   attempt_count, url, scraped_text, llm_response, final_answer,
                   is_sufficient, result, fetch_log, judge_log, attempts,
                   sink_raised, search_urls>>

\* Lines 112-113; an exception raised in the except clause goes on after it.
Finally ==
    /\ pc = "finally"
    /\ session_state' = [session_state EXCEPT !.search_running = FALSE]
    /\ pc' = IF exc = "none" THEN "done" ELSE "script_raised"
    /\ UNCHANGED <<frame, world, query, urls, max_attempts, urls_to_try, tried_urls,
                   attempt_count, url, scraped_text, llm_response, final_answer,
                   is_sufficient, result, exc, status_log, fetch_log, judge_log,
                   attempts, sink_raised, search_urls>>

AppNext ==
    \/ HandlerStart
    \/ SearchingNotice
    \/ Search
    \/ StartSession
    \/ NextAttempt
    \/ ScrapingNotice
    \/ Scrape
    \/ NoContentNotice
    \/ ScrapeOkNotice
    \/ ScrapeExcept
    \/ AnalyzingNotice
    \/ Analyze
    \/ SufficientNotice
    \/ InsufficientNotice
    \/ LlmExcept
    \/ Exhausted
    \/ StoreResults
    \/ HandlerExcept
    \/ Finally

AppSpec == AppInit /\ [][AppNext]_vars


----------------------------------------------------------------------------
(* Properties of a search run from the page.                               *)

\* C18: when the search returned no URL, no fetch and no judge call is made,
\* TriedURLs and the stored list of attempted URLs are empty, and the final
\* result is the message that no relevant pages were found, which is not the
\* exhaustion message; no exhaustion notice is issued.
C18_NoCandidates ==
    search_urls = Bound(<<>>)
       => /\ fetch_log = <<>>
          /\ judge_log = <<>>
          /\ tried_urls = <<>>
          /\ session_state.tried_urls_summary = <<>>
          /\ session_state.final_result = NoPagesMessage
          /\ session_state.final_result # failure_message(<<>>)
          /\ \A k \in DOMAIN status_log : status_log[k].kind # "exhausted"

\* The handler finished after a search that returned no URL.
C18_Witness ==
    /\ pc = "done"
    /\ search_urls = Bound(<<>>)
    /\ session_state.final_result = NoPagesMessage
    /\ ~session_state.search_running

\* C20: when a session completes, with an answer or with the exhaustion
\* message, the list it returns and the page stores for display is, in
\* order, exactly the URLs for which a fetch was made in that session.
C20_AttemptLogExposed ==
    /\ pc = "returned"
         => /\ result.kind \in {"Answered", "Exhausted"}
            /\ result.tried_urls = fetch_log
    /\ (pc \in {"finally", "done"} /\ result.kind \in {"Answered", "Exhausted"})
         => session_state.tried_urls_summary = fetch_log

\* The handler finished after a session that was answered by its second URL.
C20_Witness ==
    /\ pc = "done"
    /\ result.kind = "Answered"
    /\ Len(fetch_log) = 2
    /\ session_state.tried_urls_summary = fetch_log
    /\ session_state.final_result = result.text


NoDuplicates(list) ==
    \A i, j \in DOMAIN list : list[i] = list[j] => i = j

\* C19: whatever ordered candidate list the session is given, no URL is
\* fetched twice in the session and TriedURLs never holds a URL twice.
C19_AtMostOnce ==
    /\ NoDuplicates(fetch_log)
    /\ NoDuplicates(tried_urls)


----------------------------------------------------------------------------
(* Order of the external calls of a session.                               *)

\* A step that calls the fetcher: no judge call in the same step, every
\* earlier attempt has its fetch outcome, and the attempt fetched for is the
\* current one, not yet fetched and not yet judged.
FetchStepInOrder ==
    fetch_log' # fetch_log
       => /\ judge_log' = judge_log
          /\ Len(fetch_log') = Len(fetch_log) + 1
          /\ Len(fetch_log') = Len(attempts)
          /\ \A i \in 1..(Len(attempts) - 1) : attempts[i].fetch # "pending"
          /\ attempts[Len(attempts)].fetch = "pending"
          /\ attempts[Len(attempts)].judge = "not_called"
          /\ attempts'[Len(attempts)].fetch # "pending"

\* A step that calls the judge: no fetch in the same step, and the fetch of
\* the current attempt has returned text; no later attempt exists.
JudgeStepInOrder ==
    judge_log' # judge_log
       => /\ fetch_log' = fetch_log
          /\ Len(judge_log') = Len(judge_log) + 1
          /\ Len(fetch_log) = Len(attempts)
          /\ attempts[Len(attempts)].fetch = "text"
          /\ attempts[Len(attempts)].judge = "not_called"
          /\ attempts'[Len(attempts)].judge # "not_called"
          /\ judge_log'[Len(judge_log')].url = fetch_log[Len(fetch_log)]

\* C21: no step of a session makes more than one external call; the judge
\* is called for a position only after the fetch for that position has
\* returned, and the fetch for a position is made only after every earlier
\* attempt has concluded.
C21_StrictSequencing ==
    [][FetchStepInOrder /\ JudgeStepInOrder]_vars

\* Two URLs were fetched and judged one after the other.
C21_Witness ==
    /\ Len(fetch_log) = 2
    /\ Len(judge_log) = 2
    /\ attempts[1].judge = "replied"
    /\ attempts[2].judge = "replied"


----------------------------------------------------------------------------
(* Sessions in which every page carries the URL it was fetched from.       *)

\* The text of the page at u.
OwnPage(u) == <<"page of ", u>>

\* What scrape_single_url(u) can return.
OwnFetchResults(u) == {PyNone, Str(<<>>), Str(<<" ">>), Str(OwnPage(u))}

OwnPageInit ==
    /\ Init
    /\ max_attempts = MaxBudget

ScrapeOwnPage == ScrapeFrom(OwnFetchResults(url))

OwnPageNext ==
    \/ StartSession
    \/ NextAttempt
    \/ ScrapingNotice
    \/ ScrapeOwnPage
    \/ NoContentNotice
    \/ ScrapeOkNotice
    \/ ScrapeExcept
    \/ AnalyzingNotice
    \/ Analyze
    \/ SufficientNotice
    \/ InsufficientNotice
    \/ LlmExcept
    \/ Exhausted

OwnPageSpec == OwnPageInit /\ [][OwnPageNext]_vars

IsPrefix(p, s) == Len(p) <= Len(s) /\ p = SubSeq(s, 1, Len(p))

\* The attempt in which the k-th judge call of the session was made.
JudgedAttemptOf(k) ==
    CHOOSE i \in JudgedAttempts :
        Cardinality({j \in JudgedAttempts : j <= i}) = k

PromptsCarryOwnPage ==
    /\ query \in Queries
    /\ Len(judge_log) = Cardinality(JudgedAttempts)
    /\ \A k \in DOMAIN judge_log :
         /\ DOMAIN judge_log[k] = {"query", "url", "scraped_text"}
         /\ judge_log[k].query = query
         /\ judge_log[k].url = attempts[JudgedAttemptOf(k)].url
         /\ judge_log[k].url = tried_urls[JudgedAttemptOf(k)]
         /\ judge_log[k].scraped_text # <<>>
         /\ IsPrefix(judge_log[k].scraped_text, OwnPage(judge_log[k].url))

\* C22: every judge call of a session gets a prompt made of the session's
\* query, the URL of the attempt it is made in, and a prefix of the text
\* fetched for that URL, never text of another URL; the query never changes
\* during the session.
C22_PromptContents ==
    /\ []PromptsCarryOwnPage
    /\ [][query' = query]_vars

\* Two different URLs were judged, each with its own page.
C22_Witness ==
    /\ Len(judge_log) = 2
    /\ judge_log[1].url # judge_log[2].url
    /\ judge_log[1].scraped_text = OwnPage(judge_log[1].url)
    /\ judge_log[2].scraped_text = OwnPage(judge_log[2].url)


\* C23: no step of run_search_session changes the candidate list it was
\* given, whichever way the session ends; TriedURLs is a list of its own,
\* which grows while the candidate list stays as it was.
C23_CandidatesReadOnly ==
    [][/\ urls' = urls
       /\ tried_urls' # tried_urls => Len(tried_urls') <= Len(urls)]_vars

\* A session over three candidates returned after trying fewer of them.
C23_Witness ==
    /\ pc = "returned"
    /\ Len(urls) = 3
    /\ tried_urls # <<>>
    /\ Len(result.tried_urls) < Len(urls)


----------------------------------------------------------------------------
(* The status notices of a session.                                        *)

\* How many notices of one of `kinds` attempt i has in status_log.
NoticeCount(i, kinds) ==
    Cardinality({k \in DOMAIN status_log :
                    status_log[k].n = i /\ status_log[k].kind \in kinds})

FetchOutcomeNotices == {"no_content", "scrape_ok", "scrape_error"}
JudgeOutcomeNotices == {"sufficient", "insufficient", "llm_error"}

\* One notice for each transition of attempt i, and the outcome notices
\* that its outcomes call for.
NoticesMatchAttempt(i) ==
    /\ NoticeCount(i, {"attempt"}) = 1
    /\ NoticeCount(i, {"scraping"}) = 1
    /\ NoticeCount(i, FetchOutcomeNotices) = 1
    /\ NoticeCount(i, {"analyzing"}) = (IF attempts[i].fetch = "text" THEN 1 ELSE 0)
    /\ NoticeCount(i, JudgeOutcomeNotices) = (IF attempts[i].fetch = "text" THEN 1 ELSE 0)
    /\ NoticeCount(i, {"no_content", "scrape_error"}) > 0
          <=> attempts[i].fetch \in FailedFetchKinds
    /\ NoticeCount(i, {"llm_error"}) > 0 <=> attempts[i].judge = "raised"
    /\ NoticeCount(i, {"insufficient"}) > 0
          <=> (attempts[i].judge = "replied" /\ attempts[i].verdict = "insufficient")
    /\ NoticeCount(i, {"sufficient"}) > 0
          <=> (attempts[i].judge = "replied" /\ attempts[i].verdict = "sufficient")

ExhaustionNoticeMatchesResult ==
    /\ (\E k \in DOMAIN status_log : status_log[k].kind = "exhausted")
          <=> result.kind = "Exhausted"
    /\ \A k \in DOMAIN status_log :
          status_log[k].kind = "exhausted" => k = Len(status_log)

\* C24: in a session that has returned, the sink was called once for each
\* transition, every visited URL has the outcome notices of its outcomes (a
\* no-content or scrape-error notice iff its fetch failed, a judge-error
\* notice iff the judge raised, the insufficient notice iff the reply parsed
\* as Insufficient, the sufficient notice iff it parsed as Sufficient), and
\* the exhaustion notice is there iff the result is Exhausted, as the last
\* notice.
C24_NoticesTrackOutcomes ==
    pc = "returned"
       => /\ \A i \in DOMAIN attempts : NoticesMatchAttempt(i)
          /\ ExhaustionNoticeMatchesResult

\* The same, for the sessions in which no call of the sink raised.
NoticesTrackOutcomesWhenSinkReturns == (~sink_raised) => C24_NoticesTrackOutcomes


----------------------------------------------------------------------------
(* The collaborators on their own: each function is run from its call to   *)
(* its return or raise, on inputs drawn from small sets, with no session   *)
(* around it.                                                              *)

\* The variables of run_search_session and of the search handler, pc apart.
session_vars == <<query, urls, max_attempts, urls_to_try, tried_urls,
                  attempt_count, url, scraped_text, llm_response,
                  final_answer, is_sufficient, result, exc, status_log,
                  fetch_log, judge_log, attempts, sink_raised,
                  session_state, search_urls>>

\* No session is running.
NoSession ==
    /\ query \in Queries
    /\ urls = <<>>
    /\ max_attempts = 1
    /\ urls_to_try = <<>>
    /\ tried_urls = <<>>
    /\ attempt_count = 0
    /\ url = ""
    /\ scraped_text = PyNone
    /\ llm_response = PyNone
    /\ final_answer = PyNone
    /\ is_sufficient = FALSE
    /\ result = NoResult
    /\ exc = "none"
    /\ status_log = <<>>
    /\ fetch_log = <<>>
    /\ judge_log = <<>>
    /\ attempts = <<>>
    /\ sink_raised = FALSE
    /\ session_state = InitialSessionState
    /\ search_urls = Unbound

\* What a function call did: returned a value, or raised an exception.
Returned(v) == [raised |-> "none", value |-> v]
Raised(e)   == [raised |-> e, value |-> PyNone]

----------------------------------------------------------------------------
(* query_chat_model and extract_content (llm_service.py).                  *)

\* A reply of ollama.chat, as far as extract_content looks at it: what
\* response.message is as an attribute (attr) and what response["message"]
\* is as a dict item (item).  Each is absent, or there without a content,
\* or there with a content; the content is a string or None.
NoMessage        == [kind |-> "absent", content |-> PyNone]
EmptyMessage     == [kind |-> "no_content", content |-> PyNone]
MessageWith(c)   == [kind |-> "content", content |-> c]
ModelContents    == {PyNone, Str(ReplyFinalAnswer), Str(ReplyInsufficient)}
ModelMessages    == {NoMessage, EmptyMessage} \cup {MessageWith(c) : c \in ModelContents}
ChatResponses    == [attr : ModelMessages, item : ModelMessages]
NoChatResponse   == [attr |-> NoMessage, item |-> NoMessage]

\* What ollama.chat can raise: its own ResponseError, or anything else
\* (a connection error).
ChatErrors == {"ResponseError", "ConnectionError"}

Prompts    == {<<>>, <<" ">>, <<" ", "\n">>, <<"p">>, <<" ", "p">>}
ModelNames == {PyNone, Str(<<"m">>)}

\* extract_content with the dict shape tried first.
extract_content_dict_first(response) ==
    IF response.item.kind = "content" THEN Returned(response.item.content)
    ELSE IF response.attr.kind = "content" THEN Returned(response.attr.content)
    ELSE Raised("RuntimeError")

extract_content(response) ==
    IF response.attr.kind = "content" THEN Returned(response.attr.content)
    ELSE IF response.item.kind = "content" THEN Returned(response.item.content)
    ELSE Raised("RuntimeError")

\* len(content) of the debug line that follows extract_content.
PyLen(v) == IF v.none THEN Raised("TypeError") ELSE Returned(Len(v.s))

QueryInit ==
    /\ NoSession
    /\ pc = "query_call"
    /\ frame \in [fn : {"query_chat_model"}, prompt : Prompts,
                  model_name : ModelNames, active_model : {PyNone},
                  chat : {"not_called"}, response : {NoChatResponse},
                  outcome : {Returned(PyNone)}]
    /\ world = [chat_calls |-> 0]

\* if not prompt or not prompt.strip(): raise ValueError
\* active_model = model_name or CHAT_MODEL
QueryCheckPrompt ==
    /\ pc = "query_call"
    /\ IF frame.prompt = <<>> \/ Strip(frame.prompt) = <<>>
       THEN /\ frame' = [frame EXCEPT !.outcome = Raised("ValueError")]
            /\ pc' = "query_raised"
       ELSE /\ frame' = [frame EXCEPT !.active_model =
                            IF frame.model_name.none \/ frame.model_name.s = <<>>
                            THEN Str(<<CHAT_MODEL>>) ELSE frame.model_name]
            /\ pc' = "query_chat"
    /\ UNCHANGED <<world, session_vars>>

\* response = ollama.chat(...): the backend is contacted, and the call
\* returns a reply or raises.
QueryChat ==
    /\ pc = "query_chat"
    /\ world' = [world EXCEPT !.chat_calls = @ + 1]
    /\ \/ \E r \in ChatResponses :
             /\ frame' = [frame EXCEPT !.chat = "returned", !.response = r]
             /\ pc' = "query_extract"
       \/ \E e \in ChatErrors :
             /\ frame' = [frame EXCEPT !.chat = e]
             /\ pc' = IF e = "ResponseError" THEN "query_except_response_error"
                                             ELSE "query_except_exception"
    /\ UNCHANGED session_vars

\* content = extract_content(response); len(content); return content
QueryExtract ==
    /\ pc = "query_extract"
    /\ LET content == extract_content(frame.response)
       IN  IF content.raised # "none" \/ PyLen(content.value).raised # "none"
           THEN /\ pc' = "query_except_exception"
                /\ frame' = frame
           ELSE /\ pc' = "query_returned"
                /\ frame' = [frame EXCEPT !.outcome = Returned(content.value)]
    /\ UNCHANGED <<world, session_vars>>

\* except ollama.ResponseError as e: raise RuntimeError(error_msg) from e
QueryExceptResponseError ==
    /\ pc = "query_except_response_error"
    /\ frame' = [frame EXCEPT !.outcome = Raised("RuntimeError")]
    /\ pc' = "query_raised"
    /\ UNCHANGED <<world, session_vars>>

\* except Exception as e: raise RuntimeError("Model query failed: ...") from e
QueryExceptException ==
    /\ pc = "query_except_exception"
    /\ frame' = [frame EXCEPT !.outcome = Raised("RuntimeError")]
    /\ pc' = "query_raised"
    /\ UNCHANGED <<world, session_vars>>

\* The exception classes that the `except Exception` of a caller catches.
ExceptionSubclasses == {"ValueError", "RuntimeError", "TypeError",
                        "ResponseError", "ConnectionError"}

\* The caller of run_search_session's judging step: `except Exception as e`
\* around the call, after which the loop goes on.
QueryCallerExcept ==
    /\ pc = "query_raised"
    /\ frame.outcome.raised \in ExceptionSubclasses
    /\ pc' = "query_caller_continues"
    /\ UNCHANGED <<frame, world, session_vars>>

QueryNext ==
    \/ QueryCheckPrompt
    \/ QueryChat
    \/ QueryExtract
    \/ QueryExceptResponseError
    \/ QueryExceptException
    \/ QueryCallerExcept

QuerySpec == QueryInit /\ [][QueryNext]_vars

\* The prompt is empty or whitespace only.
BlankPrompt == Strip(frame.prompt) = <<>>

\* The content that the reply carries: that of the object shape if the reply
\* has it, else that of the dict shape.
HasObjectShape == frame.response.attr.kind = "content"
HasDictShape   == frame.response.item.kind = "content"
ContentOfReply ==
    IF HasObjectShape THEN frame.response.attr.content
                      ELSE frame.response.item.content

\* C25: a call of query_chat_model that is over has, for a blank prompt,
\* raised ValueError without contacting the model; for any other prompt it
\* has contacted the model once and either returned the string content of
\* the reply, the object shape's before the dict shape's, or raised
\* RuntimeError, which it has when the transport raised and when the reply
\* had neither shape; and whatever it raised is caught by the session's
\* `except Exception`.
C25_JudgeErrorContract ==
    pc \in {"query_returned", "query_raised", "query_caller_continues"}
       => /\ BlankPrompt
             => frame.outcome.raised = "ValueError" /\ world.chat_calls = 0
          /\ ~BlankPrompt
             => /\ world.chat_calls = 1
                /\ frame.outcome.raised \in {"none", "RuntimeError"}
                /\ frame.outcome.raised = "none"
                      => /\ frame.chat = "returned"
                         /\ HasObjectShape \/ HasDictShape
                         /\ ~frame.outcome.value.none
                         /\ frame.outcome.value = ContentOfReply
                /\ frame.chat \in ChatErrors => frame.outcome.raised = "RuntimeError"
                /\ (frame.chat = "returned" /\ ~HasObjectShape /\ ~HasDictShape)
                      => frame.outcome.raised = "RuntimeError"
          /\ frame.outcome.raised \in ExceptionSubclasses \cup {"none"}
          /\ pc = "query_raised" => ENABLED QueryCallerExcept

\* A reply with both shapes, carrying different contents, was returned from.
C25_Witness ==
    /\ pc = "query_returned"
    /\ HasObjectShape /\ HasDictShape
    /\ frame.response.attr.content # frame.response.item.content
    /\ frame.outcome.value = frame.response.attr.content


----------------------------------------------------------------------------
(* perform_web_search and its lru_cache (web_tools.py).                    *)

\* @lru_cache(maxsize=100)
maxsize == 100

MaxResults == 3
MaxCalls == 2

\* One result of the provider, as far as the comprehension looks at it: is
\* it a dict, has it an 'href', and the href.
ResultItem(d, h, v) == [is_dict |-> d, has_href |-> h, href |-> v]
ResultItems ==
    {ResultItem(TRUE, TRUE, "urlA"), ResultItem(TRUE, TRUE, "urlB"),
     ResultItem(TRUE, TRUE, ""), ResultItem(TRUE, FALSE, ""),
     ResultItem(FALSE, FALSE, "")}
ProviderResults == SeqsUpTo(ResultItems, MaxResults)
PlainProviderResults ==
    {<<>>, <<ResultItem(TRUE, TRUE, "urlA")>>, <<ResultItem(TRUE, TRUE, "urlB")>>}

\* The cache key of a call: its arguments.
SearchKey(q, n) == [query |-> q, num_results |-> n]
SearchKeys ==
    {SearchKey("capital of X", DDG_MAX_RESULTS),
     SearchKey("capital of X", DDG_MAX_RESULTS + 1),
     SearchKey("capital of Y", DDG_MAX_RESULTS)}

\* Keys of earlier searches, and what they left in the cache.
FillerKey(i) == SearchKey("earlier query", i)
CacheEntry(k, v) == [key |-> k, value |-> v]
CallRecord(k, v, p, f) == [key |-> k, value |-> v, provider |-> p, failed |-> f]
FillerEntries(n) == [i \in 1..n |-> CacheEntry(FillerKey(i), <<"urlC">>)]
FillerCalls(n) == [i \in 1..n |-> CallRecord(FillerKey(i), <<"urlC">>, TRUE, FALSE)]

\* The comprehension, without its test of the href's truth.
HrefsKeepingEmpty(results) ==
    LET kept == SelectSeq(results, LAMBDA r : r.is_dict /\ r.has_href)
    IN  [i \in 1..Len(kept) |-> kept[i].href]

\* [result['href'] for result in results
\*  if isinstance(result, dict) and 'href' in result and result['href']]
Hrefs(results) ==
    LET kept == SelectSeq(results,
                          LAMBDA r : r.is_dict /\ r.has_href /\ r.href # "")
    IN  [i \in 1..Len(kept) |-> kept[i].href]

\* The cache, least recently used entry first.
CacheHas(cache, k) == \E i \in DOMAIN cache : cache[i].key = k
CacheGet(cache, k) == (CHOOSE i \in DOMAIN cache : cache[i].key = k)
CacheWithout(cache, k) == SelectSeq(cache, LAMBDA e : e.key # k)

\* A store that keeps no empty result.
CacheStoreSkippingEmpty(cache, k, v) ==
    IF v = <<>> THEN cache
    ELSE IF Len(cache) >= maxsize THEN Append(Tail(cache), CacheEntry(k, v))
    ELSE Append(cache, CacheEntry(k, v))

\* lru_cache on a miss: the result is stored under the key, and the least
\* recently used entry goes when the cache is full.
CacheStore(cache, k, v) ==
    IF Len(cache) >= maxsize THEN Append(Tail(cache), CacheEntry(k, v))
    ELSE Append(cache, CacheEntry(k, v))

\* lru_cache on a hit: the entry becomes the most recently used.
CacheTouch(cache, k) ==
    Append(CacheWithout(cache, k), cache[CacheGet(cache, k)])

SearchFrame(k) ==
    [fn |-> "perform_web_search", query |-> k.query,
     num_results |-> k.num_results, results |-> <<>>, provider |-> "not_called",
     outcome |-> Returned(<<>>)]

\* The cache after earlier searches: none, or n of them.
SearchWorld(n) ==
    [cache |-> FillerEntries(n), calls |-> FillerCalls(n), made |-> 0]

\* A world in which some key was searched for, with or without a failure,
\* before maxsize - 1 other searches.
SearchWorldAfter(k, v, f) ==
    [cache |-> <<CacheEntry(k, v)>> \o FillerEntries(maxsize - 1),
     calls |-> <<CallRecord(k, v, TRUE, f)>> \o FillerCalls(maxsize - 1),
     made |-> 0]

SearchInit ==
    /\ NoSession
    /\ pc = "search_idle"
    /\ frame = NoFrame
    /\ world = SearchWorld(0)

CachedSearchInit ==
    /\ NoSession
    /\ pc = "search_idle"
    /\ frame = NoFrame
    /\ world \in {SearchWorld(0), SearchWorld(maxsize - 1), SearchWorld(maxsize)}
             \cup {SearchWorldAfter(k, <<>>, TRUE) : k \in SearchKeys}

\* A call of the cached function: the wrapper looks the key up, returns the
\* cached result on a hit, and calls the function on a miss.
SearchCallUpTo(limit) ==
    /\ pc \in {"search_idle", "search_returned"}
    /\ world.made < limit
    /\ \E k \in SearchKeys \cup {FillerKey(1)} :
         IF CacheHas(world.cache, k)
         THEN LET v == world.cache[CacheGet(world.cache, k)].value
              IN  /\ frame' = [SearchFrame(k) EXCEPT !.outcome = Returned(v)]
                  /\ world' = [cache |-> CacheTouch(world.cache, k),
                               calls |-> Append(world.calls,
                                                CallRecord(k, v, FALSE, FALSE)),
                               made |-> world.made + 1]
                  /\ pc' = "search_returned"
         ELSE /\ frame' = SearchFrame(k)
              /\ world' = [world EXCEPT !.made = @ + 1]
              /\ pc' = "search_provider"
    /\ UNCHANGED session_vars

\* with DDGS() as ddgs: results = list(ddgs.text(query, max_results=...))
SearchProviderFrom(lists) ==
    /\ pc = "search_provider"
    /\ \/ \E r \in lists :
             /\ frame' = [frame EXCEPT !.results = r, !.provider = "returned"]
             /\ pc' = "search_filter"
       \/ /\ frame' = [frame EXCEPT !.provider = "raised"]
          /\ pc' = "search_except"
    /\ UNCHANGED <<world, session_vars>>

\* urls = [...]; return urls
SearchFilter ==
    /\ pc = "search_filter"
    /\ frame' = [frame EXCEPT !.outcome = Returned(Hrefs(frame.results))]
    /\ pc' = "search_store"
    /\ UNCHANGED <<world, session_vars>>

\* except Exception as e: return []
SearchExcept ==
    /\ pc = "search_except"
    /\ frame' = [frame EXCEPT !.outcome = Returned(<<>>)]
    /\ pc' = "search_store"
    /\ UNCHANGED <<world, session_vars>>

\* The wrapper stores what the function returned and returns it.
SearchStore ==
    /\ pc = "search_store"
    /\ LET k == SearchKey(frame.query, frame.num_results)
           v == frame.outcome.value
       IN  world' = [world EXCEPT
                       !.cache = CacheStore(world.cache, k, v),
                       !.calls = Append(world.calls,
                                   CallRecord(k, v, TRUE, frame.provider = "raised"))]
    /\ pc' = "search_returned"
    /\ UNCHANGED <<frame, session_vars>>

SearchNext ==
    \/ SearchCallUpTo(1)
    \/ SearchProviderFrom(ProviderResults)
    \/ SearchFilter
    \/ SearchExcept
    \/ SearchStore

SearchSpec == SearchInit /\ [][SearchNext]_vars

CachedSearchNext ==
    \/ SearchCallUpTo(MaxCalls)
    \/ SearchProviderFrom(PlainProviderResults)
    \/ SearchFilter
    \/ SearchExcept
    \/ SearchStore

CachedSearchSpec == CachedSearchInit /\ [][CachedSearchNext]_vars

\* The results that are a dict with a non-empty href, by position.
GoodResults == {i \in DOMAIN frame.results :
                   /\ frame.results[i].is_dict
                   /\ frame.results[i].has_href
                   /\ frame.results[i].href # ""}
RankAmongGood(i) == Cardinality({j \in GoodResults : j <= i})

\* C26: a call of perform_web_search ends with a returned list, never with
\* an exception; the list is empty when the provider failed, and otherwise
\* it holds the href of every result that is a dict with a non-empty href,
\* each at its rank among those results, and nothing else.
C26_SearchContract ==
    /\ frame.fn = "perform_web_search" => frame.outcome.raised = "none"
    /\ pc = "search_returned"
          => /\ frame.provider = "raised" => frame.outcome.value = <<>>
             /\ frame.provider = "returned"
                   => /\ Len(frame.outcome.value) = Cardinality(GoodResults)
                      /\ \A i \in GoodResults :
                            frame.outcome.value[RankAmongGood(i)] = frame.results[i].href

\* Results were dropped from between results that were kept.
C26_Witness ==
    /\ pc = "search_returned"
    /\ Len(frame.results) = 3
    /\ frame.results[2].is_dict /\ frame.results[2].has_href
    /\ frame.results[2].href = ""
    /\ frame.outcome.value = <<"urlB", "urlA">>


\* The call before call i that had the same arguments, 0 if there is none.
PreviousCall(i) ==
    LET same == {j \in 1..(i - 1) : world.calls[j].key = world.calls[i].key}
    IN  IF same = {} THEN 0 ELSE CHOOSE j \in same : \A m \in same : m <= j

\* The arguments of call i are among the last maxsize distinct ones used.
StillCachedAt(i) ==
    /\ PreviousCall(i) # 0
    /\ Cardinality({world.calls[m].key : m \in (PreviousCall(i) + 1)..(i - 1)})
          < maxsize

\* C27: a call of perform_web_search whose arguments are among the last 100
\* distinct ones used returns what the previous call with these arguments
\* returned and does not invoke the provider, whether that previous result
\* came from the provider or is the empty list of a failed search.
C27_SearchCached ==
    \A i \in DOMAIN world.calls :
       StillCachedAt(i)
          => /\ world.calls[i].value = world.calls[PreviousCall(i)].value
             /\ ~world.calls[i].provider

\* A search failed, and the same search was made again and answered from
\* the cache.
C27_Witness ==
    /\ pc = "search_returned"
    /\ Len(world.calls) = 2
    /\ world.calls[1].failed /\ world.calls[1].value = <<>>
    /\ world.calls[2].key = world.calls[1].key
    /\ ~world.calls[2].provider /\ world.calls[2].value = <<>>


----------------------------------------------------------------------------
(* scrape_single_url (web_tools.py).                                       *)

\* One item of the crawler's JSON output, as far as the function looks at
\* it: is it a dict, has it a 'text', and the text (a string or null).
ScrapedItem(d, h, t) == [is_dict |-> d, has_text |-> h, text |-> t]
ScrapedItems ==
    {ScrapedItem(FALSE, FALSE, PyNone), ScrapedItem(TRUE, FALSE, PyNone)}
       \cup {ScrapedItem(TRUE, TRUE, t) : t \in FetchResults}

MaxItems == 2

\* What the output file holds after the crawl: nothing, text that is not
\* JSON, or JSON that is a list of items or something else.
EmptyFile    == [kind |-> "empty", is_list |-> FALSE, items |-> <<>>]
InvalidJson  == [kind |-> "invalid", is_list |-> FALSE, items |-> <<>>]
JsonOther    == [kind |-> "json", is_list |-> FALSE, items |-> <<>>]
JsonList(xs) == [kind |-> "json", is_list |-> TRUE, items |-> xs]
OutputFiles ==
    {EmptyFile, InvalidJson, JsonOther}
       \cup {JsonList(xs) : xs \in SeqsUpTo(ScrapedItems, MaxItems)}

TempFile == "tmp.json"
ScrapeUrls == {"", "urlA"}

\* The extraction with None for an empty text.
ExtractTextNoneWhenEmpty(data) ==
    IF data.is_list /\ data.items # <<>>
    THEN LET first_item == data.items[1]
         IN  IF first_item.is_dict /\ first_item.has_text
             THEN IF Truthy(first_item.text) THEN first_item.text ELSE PyNone
             ELSE PyNone
    ELSE PyNone

\* if isinstance(scraped_data, list) and scraped_data: ... return None
ExtractText(data) ==
    IF data.is_list /\ data.items # <<>>
    THEN LET first_item == data.items[1]
         IN  IF first_item.is_dict /\ first_item.has_text
             THEN IF Truthy(first_item.text) THEN first_item.text ELSE Str(<<>>)
             ELSE PyNone
    ELSE PyNone

ScrapeInit ==
    /\ NoSession
    /\ pc = "scrape_call"
    /\ frame \in [fn : {"scrape_single_url"}, url : ScrapeUrls,
                  temp_file_path : {PyNone}, tempfile : {"not_called"},
                  run : {"not_run"}, returncode : {0},
                  read : {"not_read"}, outcome : {Returned(PyNone)}]
    /\ world \in [scrapy_dir : BOOLEAN, files : {{}}, content : {EmptyFile},
                  remove_failed : {FALSE}]

\* if not url: return None; if not scrapy_dir.is_dir(): return None
ScrapeCheckArguments ==
    /\ pc = "scrape_call"
    /\ pc' = IF frame.url = "" \/ ~world.scrapy_dir THEN "scrape_returned"
                                                    ELSE "scrape_tempfile"
    /\ UNCHANGED <<frame, world, session_vars>>

\* with tempfile.NamedTemporaryFile(..., delete=False) as temp_f:
\*     temp_file_path = temp_f.name
ScrapeTempFile ==
    /\ pc = "scrape_tempfile"
    /\ \/ /\ frame' = [frame EXCEPT !.tempfile = "created",
                                    !.temp_file_path = Str(TempFile)]
          /\ world' = [world EXCEPT !.files = @ \cup {TempFile},
                                    !.content = EmptyFile]
          /\ pc' = "scrape_run"
       \/ /\ frame' = [frame EXCEPT !.tempfile = "raised"]
          /\ world' = world
          /\ pc' = "scrape_except_exception"
    /\ UNCHANGED session_vars

\* process = subprocess.run(command, ...): the crawl, which may write the
\* output file, leave it empty or remove it; if process.returncode != 0:
\* return None
ScrapeRun ==
    /\ pc = "scrape_run"
    /\ \/ /\ frame' = [frame EXCEPT !.run = "raised"]
          /\ world' = world
          /\ pc' = "scrape_except_exception"
       \/ \E code \in {0, 1} :
             /\ frame' = [frame EXCEPT !.run = "returned", !.returncode = code]
             /\ \/ \E c \in OutputFiles : world' = [world EXCEPT !.content = c]
                \/ world' = [world EXCEPT !.files = @ \ {TempFile}]
             /\ pc' = IF code # 0 THEN "scrape_finally" ELSE "scrape_read"
    /\ UNCHANGED session_vars

\* if not output_file.exists(): return None
\* if output_file.stat().st_size == 0: return None
\* scraped_data = json.load(f); ...
ScrapeRead ==
    /\ pc = "scrape_read"
    /\ IF TempFile \notin world.files
       THEN /\ frame' = [frame EXCEPT !.read = "missing"]
            /\ pc' = "scrape_finally"
       ELSE IF world.content.kind = "empty"
       THEN /\ frame' = [frame EXCEPT !.read = "empty"]
            /\ pc' = "scrape_finally"
       ELSE IF world.content.kind = "invalid"
       THEN /\ frame' = [frame EXCEPT !.read = "invalid"]
            /\ pc' = "scrape_except_json"
       ELSE \/ /\ frame' = [frame EXCEPT !.read = "json",
                               !.outcome = Returned(ExtractText(world.content))]
               /\ pc' = "scrape_finally"
            \/ /\ frame' = [frame EXCEPT !.read = "raised"]
               /\ pc' = "scrape_except_exception"
    /\ UNCHANGED <<world, session_vars>>

\* except json.JSONDecodeError: ... return None
ScrapeExceptJson ==
    /\ pc = "scrape_except_json"
    /\ frame' = [frame EXCEPT !.outcome = Returned(PyNone)]
    /\ pc' = "scrape_finally"
    /\ UNCHANGED <<world, session_vars>>

\* except Exception as e: ... return None
ScrapeExceptException ==
    /\ pc = "scrape_except_exception"
    /\ frame' = [frame EXCEPT !.outcome = Returned(PyNone)]
    /\ pc' = "scrape_finally"
    /\ UNCHANGED <<world, session_vars>>

\* finally: if temp_file_path and Path(temp_file_path).exists():
\*     try: os.remove(temp_file_path) except OSError: ...
ScrapeFinally ==
    /\ pc = "scrape_finally"
    /\ IF ~frame.temp_file_path.none /\ frame.temp_file_path.s \in world.files
       THEN \/ world' = [world EXCEPT !.files = @ \ {frame.temp_file_path.s}]
            \/ world' = [world EXCEPT !.remove_failed = TRUE]
       ELSE world' = world
    /\ pc' = "scrape_returned"
    /\ UNCHANGED <<frame, session_vars>>

ScrapeSingleNext ==
    \/ ScrapeCheckArguments
    \/ ScrapeTempFile
    \/ ScrapeRun
    \/ ScrapeRead
    \/ ScrapeExceptJson
    \/ ScrapeExceptException
    \/ ScrapeFinally

ScrapeSpec == ScrapeInit /\ [][ScrapeSingleNext]_vars

\* The call read JSON of the expected shape: a list whose first item is a
\* dict with a 'text'.
ReadFirstItemText ==
    /\ frame.read = "json"
    /\ world.content.is_list /\ world.content.items # <<>>
    /\ world.content.items[1].is_dict /\ world.content.items[1].has_text

FirstItemText == world.content.items[1].text
EmptyText(t) == t.none \/ t.s = <<>>

\* C28: scrape_single_url ends with a return, never with an exception; it
\* returns the first item's text if the crawl exited with 0 and left JSON
\* whose first item is a dict with a non-empty text, the empty string if
\* that text is empty, and None on every other path; and the temporary file
\* that it created is gone when it returns, unless its removal failed.
C28_FetcherContract ==
    /\ frame.fn = "scrape_single_url" => frame.outcome.raised = "none"
    /\ pc = "scrape_returned"
          => /\ IF ReadFirstItemText
                THEN frame.outcome.value =
                        (IF EmptyText(FirstItemText) THEN Str(<<>>) ELSE FirstItemText)
                ELSE frame.outcome.value = PyNone
             /\ frame.tempfile = "created"
                   => TempFile \notin world.files \/ world.remove_failed

\* A first item with an empty text was read, and the temporary file removed.
C28_Witness ==
    /\ pc = "scrape_returned"
    /\ ReadFirstItemText /\ FirstItemText = Str(<<>>)
    /\ frame.outcome.value = Str(<<>>)
    /\ frame.tempfile = "created" /\ TempFile \notin world.files
    /\ ~world.remove_failed


\* C29: whatever the reply, the parser's result is either an answer that is
\* a non-empty string with no whitespace at either end, with True, or None
\* with False.
C29_ParserOutputInvariant ==
    pc = "parse_done"
       => IF is_sufficient
          THEN /\ ~final_answer.none
               /\ final_answer.s # <<>>
               /\ ~IsSpace(final_answer.s[1])
               /\ ~IsSpace(final_answer.s[Len(final_answer.s)])
          ELSE final_answer = PyNone

\* A reply with whitespace around the text after the marker was parsed as
\* Sufficient.
C29_Witness ==
    /\ pc = "parse_done"
    /\ is_sufficient
    /\ llm_response.s = MarkerTitle \o <<" ","P","a","r","i","s">>
    /\ final_answer = Str(<<"P","a","r","i","s">>)

\* A session that returned an answer returned a non-empty answer part.
AnsweredHasAnswerPart ==
    (pc = "returned" /\ result.kind = "Answered")
       => (is_sufficient /\ ~final_answer.none /\ final_answer.s # <<>>)


\* A session that made no attempt: nothing fetched, nothing judged, and, if
\* it returned, the exhaustion message for 0 URLs with an empty attempt log.
NoAttemptMade ==
    /\ fetch_log = <<>>
    /\ judge_log = <<>>
    /\ tried_urls = <<>>
    /\ pc = "raised" => exc = "sink"
    /\ pc = "returned"
          => /\ result.kind = "Exhausted"
             /\ result.text = failure_message(<<>>)
             /\ result.tried_urls = <<>>

\* C30: with an attempt budget k <= 0, whatever the candidates, the session
\* fetches nothing, judges nothing, lets no exception of its own out, and
\* returns the exhaustion message with count 0 and an empty TriedURLs.
C30_NonPositiveBudget == max_attempts <= 0 => NoAttemptMade

\* The same for the budget 0 alone.
ZeroBudgetMakesNoAttempt == max_attempts = 0 => NoAttemptMade

\* A session with budget 0 and candidates has returned.
ZeroBudgetReturned == pc = "returned" /\ max_attempts = 0 /\ urls # <<>>


\* The handler is over: it ran to its end, or an exception left it.
HandlerOver == pc \in {"done", "script_raised"}

\* C31: once the search handler is over, on whatever path, search_running is
\* False and final_result is a non-empty string; and search_running is True
\* only while the handler is between its start and its finally block.
C31_SessionFlag ==
    /\ HandlerOver
          => /\ ~session_state.search_running
             /\ session_state.final_result # <<>>
    /\ session_state.search_running => pc \notin {"idle", "done", "script_raised"}

\* The same for the handler that ran to its end, that is, in which neither
\* the display call before the try nor the one of the except clause raised.
SessionFlagWhenHandlerCompletes ==
    /\ pc = "done"
          => /\ ~session_state.search_running
             /\ session_state.final_result # <<>>
    /\ session_state.search_running => pc \notin {"idle", "done"}

\* The four ways in which a handler runs to its end.
CompletedWithNoResults == pc = "done" /\ search_urls = Bound(<<>>)
CompletedAnswered == pc = "done" /\ result.kind = "Answered"
CompletedExhausted == pc = "done" /\ result.kind = "Exhausted"
CompletedAfterException ==
    pc = "done" /\ session_state.final_result = ErrorMessage


----------------------------------------------------------------------------
(* Several searches from the same page.  st.session_state outlives a run   *)
(* of the script; the variables of the script do not.                      *)

MaxSearches == 2

RerunInit ==
    /\ query \in Queries
    /\ urls = <<>>
    /\ max_attempts = MAX_SEARCH_ATTEMPTS
    /\ urls_to_try = <<>>
    /\ tried_urls = <<>>
    /\ attempt_count = 0
    /\ url = ""
    /\ scraped_text = PyNone
    /\ llm_response = PyNone
    /\ final_answer = PyNone
    /\ is_sufficient = FALSE
    /\ result = NoResult
    /\ pc = "idle"
    /\ exc = "none"
    /\ status_log = <<>>
    /\ fetch_log = <<>>
    /\ judge_log = <<>>
    /\ attempts = <<>>
    /\ sink_raised = FALSE
    /\ session_state = InitialSessionState
    /\ search_urls = Unbound
    /\ frame = NoFrame
    /\ world = [searches |-> 1, previous_summary |-> <<>>]

\* The script is run again with the button pressed: the button is enabled
\* only while search_running is False (line 59); the script starts with
\* fresh variables and with the session state that the last run left.
Rerun ==
    /\ pc \in {"done", "script_raised"}
    /\ ~session_state.search_running
    /\ world.searches < MaxSearches
    /\ world' = [searches |-> world.searches + 1,
                 previous_summary |-> session_state.tried_urls_summary]
    /\ pc' = "idle"
    /\ urls' = <<>>
    /\ max_attempts' = MAX_SEARCH_ATTEMPTS
    /\ urls_to_try' = <<>>
    /\ tried_urls' = <<>>
    /\ attempt_count' = 0
    /\ url' = ""
    /\ scraped_text' = PyNone
    /\ llm_response' = PyNone
    /\ final_answer' = PyNone
    /\ is_sufficient' = FALSE
    /\ result' = NoResult
    /\ exc' = "none"
    /\ fetch_log' = <<>>
    /\ judge_log' = <<>>
    /\ attempts' = <<>>
    /\ sink_raised' = FALSE
    /\ search_urls' = Unbound
    /\ UNCHANGED <<query, status_log, session_state, frame>>

RerunNext ==
    \/ AppNext
    \/ Rerun

RerunSpec == RerunInit /\ [][RerunNext]_vars

\* The results of the session of this run were stored.
StoredThisRun == result.kind # "none" /\ pc \in {"finally", "done"}

\* C32: in every search, the first or a later one, once the handler has
\* started the three fields hold data of this search only: before the search
\* provider is called final_result and tried_urls_summary are empty and the
\* messages are the handler's first ones; tried_urls_summary is the
\* attempt log of this run's session if its results were stored and empty
\* otherwise; final_result is empty, the no-pages message of this run's
\* empty search, the error message, or the text that this run's session
\* returned; and the messages begin with this run's "Starting search" and
\* name only URLs that this run's session visited.
C32_PerSearchReset ==
    pc # "idle"
       => /\ pc \in {"searching_notice", "search"}
                => /\ session_state.final_result = <<>>
                   /\ session_state.tried_urls_summary = <<>>
                   /\ \A k \in DOMAIN status_log :
                         status_log[k].kind \in {"starting", "searching"}
          /\ session_state.tried_urls_summary =
                (IF StoredThisRun THEN result.tried_urls ELSE <<>>)
          /\ session_state.final_result \in
                {<<>>, NoPagesMessage, ErrorMessage}
                   \cup (IF StoredThisRun THEN {result.text} ELSE {})
          /\ session_state.final_result = NoPagesMessage
                => search_urls = Bound(<<>>)
          /\ status_log # <<>>
          /\ \A k \in DOMAIN status_log :
                /\ status_log[k].kind = "starting" <=> k = 1
                /\ status_log[k].url # ""
                      => \E i \in DOMAIN tried_urls : tried_urls[i] = status_log[k].url

\* A search without results has ended after a search that left a list of
\* attempted URLs.
C32_Witness ==
    /\ world.searches = 2
    /\ world.previous_summary # <<>>
    /\ pc = "done"
    /\ search_urls = Bound(<<>>)
    /\ session_state.tried_urls_summary = <<>>
    /\ session_state.final_result = NoPagesMessage


----------------------------------------------------------------------------
(* The crawl of one URL: scrape_single_url hands its URL to the spider as  *)
(* the start_urls argument, and MySpider.__init__ parses it.               *)

MaxUrlLen == 4

\* The characters of the URLs: a letter, a digit, and the ones that the
\* parsing looks for.  Inside the double quotes of the command line the
\* shell leaves all of them as they are.
UrlChars == {"a", "1", ":", "/", ",", " "}
UrlTexts == SeqsUpTo(UrlChars, MaxUrlLen)

SchemeLetters == {LowerChars[i] : i \in DOMAIN LowerChars}
                    \cup {UpperChars[i] : i \in DOMAIN UpperChars}
SchemeChars == SchemeLetters
                  \cup {"0","1","2","3","4","5","6","7","8","9","+","-","."}

\* urlparse(url).scheme is not empty: the text before the first colon starts
\* with a letter and is made of scheme characters.
HasScheme(u) ==
    LET colons == {i \in DOMAIN u : u[i] = ":"}
    IN  /\ colons # {}
        /\ LET i == CHOOSE c \in colons : \A d \in colons : c <= d
           IN  /\ i > 1
               /\ u[1] \in SchemeLetters
               /\ \A j \in 1..(i - 1) : u[j] \in SchemeChars

HttpPrefix == <<"h","t","t","p",":","/","/">>

\* str.split(sep) for a one-character separator.
RECURSIVE Split(_, _)
Split(s, sep) ==
    LET hits == {i \in DOMAIN s : s[i] = sep}
    IN  IF hits = {} THEN <<s>>
        ELSE LET i == CHOOSE h \in hits : \A g \in hits : h <= g
             IN  <<SubSeq(s, 1, i - 1)>> \o Split(SubSeq(s, i + 1, Len(s)), sep)

\* MySpider._parse_urls
_parse_urls(input_urls_str) ==
    IF ~Truthy(input_urls_str) THEN Raised("ValueError")
    ELSE LET parts == Split(input_urls_str.s, ",")
             stripped == [k \in DOMAIN parts |-> Strip(parts[k])]
             kept == SelectSeq(stripped, LAMBDA u : u # <<>>)
         IN  Returned([k \in DOMAIN kept |->
                          IF HasScheme(kept[k]) THEN kept[k]
                          ELSE HttpPrefix \o kept[k]])

SpiderInit ==
    /\ NoSession
    /\ pc = "crawl_call"
    /\ frame \in [fn : {"scrape_single_url", "MySpider"},
                  url : {Str(u) : u \in UrlTexts} \cup {PyNone},
                  start_urls_arg : {PyNone},
                  start_urls : {Returned(<<>>)}]
    /\ world = NoWorld

\* scrape_single_url: if not url: return None; otherwise the command line
\* scrapy crawl myspider -a start_urls="{url}" ...
CrawlCommand ==
    /\ pc = "crawl_call"
    /\ frame.fn = "scrape_single_url"
    /\ IF ~Truthy(frame.url)
       THEN pc' = "crawl_skipped" /\ frame' = frame
       ELSE /\ frame' = [frame EXCEPT !.start_urls_arg = frame.url]
            /\ pc' = "spider_init"
    /\ UNCHANGED <<world, session_vars>>

\* The spider made with any start_urls argument, or with none.
SpiderMade ==
    /\ pc = "crawl_call"
    /\ frame.fn = "MySpider"
    /\ frame' = [frame EXCEPT !.start_urls_arg = frame.url]
    /\ pc' = "spider_init"
    /\ UNCHANGED <<world, session_vars>>

\* self.start_urls = self._parse_urls(start_urls or getattr(...))
SpiderParse ==
    /\ pc = "spider_init"
    /\ LET parsed == _parse_urls(frame.start_urls_arg)
       IN  /\ frame' = [frame EXCEPT !.start_urls = parsed]
           /\ pc' = IF parsed.raised = "none" THEN "spider_ready"
                                               ELSE "spider_raised"
    /\ UNCHANGED <<world, session_vars>>

SpiderNext ==
    \/ CrawlCommand
    \/ SpiderMade
    \/ SpiderParse

SpiderSpec == SpiderInit /\ [][SpiderNext]_vars

\* The argument cut at its commas, by the positions of the commas.
ArgText == frame.start_urls_arg.s
CutPoints == {0, Len(ArgText) + 1} \cup {i \in DOMAIN ArgText : ArgText[i] = ","}
CutPoint(k) == CHOOSE c \in CutPoints : Cardinality({d \in CutPoints : d < c}) = k
Segment(k) == Strip(SubSeq(ArgText, CutPoint(k - 1) + 1, CutPoint(k) - 1))
NonBlankSegments == {k \in 1..(Cardinality(CutPoints) - 1) : Segment(k) # <<>>}
RankAmongNonBlank(k) == Cardinality({j \in NonBlankSegments : j <= k})
WithScheme(u) == IF HasScheme(u) THEN u ELSE HttpPrefix \o u

\* The spider starts from the trimmed non-blank entries of a comma-separated
\* argument, in their order, each with http:// in front if it has no
\* scheme; an empty or missing argument raises ValueError.
ParsesCommaSeparatedList ==
    pc \in {"spider_ready", "spider_raised"}
       => IF ~Truthy(frame.start_urls_arg)
          THEN frame.start_urls.raised = "ValueError"
          ELSE /\ frame.start_urls.raised = "none"
               /\ Len(frame.start_urls.value) = Cardinality(NonBlankSegments)
               /\ \A k \in NonBlankSegments :
                     frame.start_urls.value[RankAmongNonBlank(k)]
                        = WithScheme(Segment(k))

\* The spider started for the URL of scrape_single_url has that URL, with
\* http:// in front if it has no scheme, as its one start URL.
OneStartUrl ==
    (frame.fn = "scrape_single_url" /\ pc \in {"spider_ready", "spider_raised"})
       => /\ frame.start_urls.raised = "none"
          /\ frame.start_urls.value = <<WithScheme(frame.url.s)>>

\* C33: for every non-empty URL that scrape_single_url passes to the spider,
\* _parse_urls yields exactly one start URL, that URL (with http:// in front
\* only when it has no scheme); and in general _parse_urls splits on commas,
\* keeps the order, drops blank entries and raises ValueError on empty input.
C33_SingleUrlCrawl == OneStartUrl /\ ParsesCommaSeparatedList

\* The same for the URLs without a comma and without whitespace at an end.
OneStartUrlForPlainUrls ==
    (/\ frame.fn = "scrape_single_url"
     /\ pc \in {"spider_ready", "spider_raised"}
     /\ \A i \in DOMAIN frame.url.s : frame.url.s[i] # ","
     /\ Strip(frame.url.s) = frame.url.s)
       => /\ frame.start_urls.raised = "none"
          /\ frame.start_urls.value = <<WithScheme(frame.url.s)>>

\* A URL with a comma in it was crawled as two start URLs.
UrlWithCommaCrawledAsTwo ==
    /\ frame.fn = "scrape_single_url"
    /\ pc = "spider_ready"
    /\ frame.url = Str(<<"a", ":", ",", "a">>)
    /\ frame.start_urls.value = <<<<"a", ":">>, HttpPrefix \o <<"a">>>>

====
